---------------------------- MODULE Spec2Model ----------------------------
(***************************************************************************)
(* dj-postgres-mcp: the database tools (execute_query, list_tables,        *)
(* describe_table) and the configuration tools as dispatched by            *)
(* PostgresServer, the QueryExecutor and the ConfigHandler they call, the  *)
(* resource handlers of index.ts, the database tools it serves itself and *)
(* the configuration tools it hands to its McpConfigHandler, the           *)
(* dj-config-mcp store, and the pg connection and engine they talk to.     *)
(*                                                                         *)
(* Strings that the code inspects with includes() are sequences of words;  *)
(* includes() is containment of a contiguous run of words.  JavaScript     *)
(* argument values are records carrying their typeof tag, their            *)
(* truthiness, the text toString() gives and, for arrays, the tags of      *)
(* their elements.                                                         *)
(***************************************************************************)
EXTENDS Integers, Sequences, FiniteSets, TLC

(***************************************************************************)
(* Bounds of the model.                                                    *)
(***************************************************************************)
\* Tool calls received over the lifetime of one behaviour.
MaxCalls == 2
\* Statements submitted one after the other in the transaction scenario.
MaxTxCalls == 4
\* Tool calls in flight at the same time.
MaxConcurrent == 2
\* Longest params array enumerated by the argument-validation specification.
MaxParams == 2
\* Longest engine error message (in words) enumerated for the classifier.
MaxMsgLen == 5
\* describeTable calls made one after the other on the same catalog.
MaxDescribes == 2
\* listTables calls made one after the other on the same catalog.
MaxLists == 2
\* Columns of a result whose type identifiers are resolved.
MaxFields == 2
\* Configuration tool calls made one after the other.
MaxConfigCalls == 3

\* Readings of the system clock range over 0..MaxClock.
MaxClock == 2

(***************************************************************************)
(* JavaScript values as they arrive in args.  str is the text of a string *)
(* and what toString() gives for a number (1 and 0 are the numbers in      *)
(* use), a boolean and a plain object; null and undefined have no          *)
(* toString().                                                             *)
(***************************************************************************)
JsUndefined == [type |-> "undefined", truthy |-> FALSE, str |-> "", elems |-> <<>>]
JsNull == [type |-> "null", truthy |-> FALSE, str |-> "", elems |-> <<>>]
JsStr(s) == [type |-> "string", truthy |-> (s # ""), str |-> s, elems |-> <<>>]
JsNum(nonzero) ==
  [type |-> "number", truthy |-> nonzero, str |-> IF nonzero THEN "1" ELSE "0",
   elems |-> <<>>]
JsBool(b) ==
  [type |-> "boolean", truthy |-> b, str |-> IF b THEN "true" ELSE "false",
   elems |-> <<>>]
JsObject ==
  [type |-> "object", truthy |-> TRUE, str |-> "[object Object]", elems |-> <<>>]
JsArray(es) == [type |-> "array", truthy |-> TRUE, str |-> "", elems |-> es]

\* v.toString() throws a TypeError on null and undefined.
HasToString(v) == v.type \notin {"null", "undefined"}
\* v.toString()
JsToString(v) == v.str

\* typeof v
TypeOf(v) == IF v.type \in {"null", "array"} THEN "object" ELSE v.type
\* Array.isArray(v)
IsArray(v) == v.type = "array"
\* typeof of an array element given by its tag
ElemTypeOf(tag) == IF tag \in {"null", "array"} THEN "object" ELSE tag

\* The element kinds a params array can hold.
ElemTags == {"string", "number", "boolean", "null", "undefined", "array", "object"}

(***************************************************************************)
(* Errors.  cls is the JavaScript class of the thrown value; code is the   *)
(* ManagedError taxonomy code (or the McpError code); details holds the    *)
(* keys of the details object.                                             *)
(***************************************************************************)
ErrorCodes ==
  {"INVALID_CONNECTION_STRING", "CONNECTION_FAILED", "AUTHENTICATION_FAILED",
   "QUERY_ERROR", "TIMEOUT", "PERMISSION_DENIED", "TABLE_NOT_FOUND",
   "INVALID_PARAMS", "NO_CONNECTION"}

ManagedError(code, message, details) ==
  [cls |-> "ManagedError", code |-> code, message |-> message, details |-> details]

\* A value thrown by the pg client: an Error with a message, or (isError
\* FALSE) some other thrown value whose String() is the text.
RawError(isError, message) ==
  [cls |-> IF isError THEN "Error" ELSE "NonError", code |-> "",
   message |-> message, details |-> {}]

McpError(code, message, data) ==
  [cls |-> "McpError", code |-> code, message |-> message, details |-> data]

NoError == [cls |-> "none", code |-> "", message |-> <<>>, details |-> {}]


(***************************************************************************)
(* String.prototype.includes on word sequences.                            *)
(***************************************************************************)
Includes(m, p) ==
  \E i \in 1..(Len(m) - Len(p) + 1) : SubSeq(m, i, i + Len(p) - 1) = p

(***************************************************************************)
(* QueryExecutor.executeQuery, the part that does not touch the            *)
(* connection: the catch block that classifies a failed client.query, and  *)
(* the shaping of a successful result.                                     *)
(***************************************************************************)
\* The catch block.  thrown is the value client.query rejected with;
\* errorMessage is its message (an Error) or its String() (anything else).
ExecuteQueryCatch_RethrowGeneric(thrown) ==
  LET errorMessage == thrown.message IN
  IF Includes(errorMessage, <<"permission", "denied">>)
    THEN ManagedError("PERMISSION_DENIED",
                      <<"Permission", "denied", "for", "this", "operation">>,
                      {"query"})
  ELSE IF Includes(errorMessage, <<"does", "not", "exist">>)
    THEN ManagedError("TABLE_NOT_FOUND", errorMessage, {"query"})
  ELSE IF Includes(errorMessage, <<"syntax", "error">>)
    THEN ManagedError("QUERY_ERROR",
                      <<"SQL", "syntax", "error:">> \o errorMessage, {"query"})
  ELSE thrown

ExecuteQueryCatch_ExistFirst(thrown) ==
  LET errorMessage == thrown.message IN
  IF Includes(errorMessage, <<"does", "not", "exist">>)
    THEN ManagedError("TABLE_NOT_FOUND", errorMessage, {"query"})
  ELSE IF Includes(errorMessage, <<"permission", "denied">>)
    THEN ManagedError("PERMISSION_DENIED",
                      <<"Permission", "denied", "for", "this", "operation">>,
                      {"query"})
  ELSE IF Includes(errorMessage, <<"syntax", "error">>)
    THEN ManagedError("QUERY_ERROR",
                      <<"SQL", "syntax", "error:">> \o errorMessage, {"query"})
  ELSE ManagedError("QUERY_ERROR",
                    <<"Query", "execution", "failed:">> \o errorMessage,
                    {"query", "executionTime"})

ExecuteQueryCatch(thrown) ==
  LET errorMessage == thrown.message IN
  IF Includes(errorMessage, <<"permission", "denied">>)
    THEN ManagedError("PERMISSION_DENIED",
                      <<"Permission", "denied", "for", "this", "operation">>,
                      {"query"})
  ELSE IF Includes(errorMessage, <<"does", "not", "exist">>)
    THEN ManagedError("TABLE_NOT_FOUND", errorMessage, {"query"})
  ELSE IF Includes(errorMessage, <<"syntax", "error">>)
    THEN ManagedError("QUERY_ERROR",
                      <<"SQL", "syntax", "error:">> \o errorMessage, {"query"})
  ELSE ManagedError("QUERY_ERROR",
                    <<"Query", "execution", "failed:">> \o errorMessage,
                    {"query", "executionTime"})

\* What a tool hands back on success.
NoResult == [kind |-> "none", rowCount |-> 0, command |-> ""]

\* The return statement: rowCount || 0, command || 'UNKNOWN'.  raw is the
\* pg result: hasRowCount FALSE stands for a null rowCount, command "" for
\* an unreported command tag.
ExecuteQueryReturn_AsReported(raw) ==
  [kind |-> "QueryResult", rowCount |-> raw.rowCount, command |-> raw.command]

ExecuteQueryReturn(raw) ==
  [kind |-> "QueryResult",
   rowCount |-> IF raw.hasRowCount THEN raw.rowCount ELSE 0,
   command |-> IF raw.command # "" THEN raw.command ELSE "UNKNOWN"]

(***************************************************************************)
(* ConfigHandler: the default configuration and isConfigured().            *)
(***************************************************************************)
\* process.env.X || fallback
OrDefault(env, fallback) == IF env # "" THEN env ELSE fallback

\* parseInt on the decimal texts in use; -1 stands for NaN, the result on
\* a text that does not start with a number.
ParseInt(text) ==
  CASE text = "5432" -> 5432 [] text = "6543" -> 6543 [] text = "1" -> 1
    [] text = "0" -> 0 [] OTHER -> -1

GetDefaultConfig(env) ==
  [host |-> OrDefault(env.host, "localhost"),
   port |-> ParseInt(OrDefault(env.port, "5432")),
   database |-> OrDefault(env.database, "postgres"),
   user |-> OrDefault(env.user, "postgres"),
   password |-> OrDefault(env.password, ""),
   ssl |-> JsBool(env.ssl = "true")]

\* The value a call slot holds for the configuration while it serves no call.
NoConfig ==
  [host |-> "", port |-> 5432, database |-> "", user |-> "", password |-> "",
   ssl |-> JsBool(FALSE)]

\* dj-config-mcp, installed and with nothing persisted: configGet finds no
\* value.  A key without a value holds ""; sslSet tells a value was
\* persisted for postgres.ssl, which may be the empty text.
NoStore ==
  [installed |-> TRUE, host |-> "", port |-> "", database |-> "", user |-> "",
   password |-> "", ssl |-> "", sslSet |-> FALSE]

IsConfigured_NoPassword(cfg) ==
  cfg.host # "" /\ cfg.database # "" /\ cfg.user # ""

IsConfigured(cfg) ==
  cfg.host # "" /\ cfg.database # "" /\ cfg.user # "" /\ cfg.password # ""

(***************************************************************************)
(* The synchronous prefix of the three tool handlers: argument checks,     *)
(* then the configuration check.  Each yields the error thrown, or         *)
(* NoError.                                                                *)
(***************************************************************************)
NoArgs ==
  [query |-> JsUndefined, params |-> JsUndefined,
   table |-> JsUndefined, schema |-> JsUndefined]

\* A parameter the loop of handleExecuteQuery rejects.
BadParam(tag) ==
  tag # "null" /\ ElemTypeOf(tag) \notin {"string", "number", "boolean"}

ValidateExecuteQuery(args) ==
  IF ~args.query.truthy \/ TypeOf(args.query) # "string"
    THEN ManagedError("INVALID_PARAMS",
                      <<"query is required and must be a string">>, {})
  ELSE IF args.params.truthy /\ ~IsArray(args.params)
    THEN ManagedError("INVALID_PARAMS", <<"params must be an array">>, {})
  ELSE IF args.params.truthy
          /\ \E k \in 1..Len(args.params.elems) : BadParam(args.params.elems[k])
    THEN ManagedError("INVALID_PARAMS",
           <<"Query parameters must be string, number, boolean, or null">>, {})
  ELSE NoError

ValidateDescribeTable(args) ==
  IF ~args.table.truthy \/ TypeOf(args.table) # "string"
    THEN ManagedError("INVALID_PARAMS",
                      <<"table is required and must be a string">>, {})
  ELSE IF args.schema.truthy /\ TypeOf(args.schema) # "string"
    THEN ManagedError("INVALID_PARAMS", <<"schema must be a string">>, {})
  ELSE NoError

ValidateListTables(args) ==
  IF args.schema.truthy /\ TypeOf(args.schema) # "string"
    THEN ManagedError("INVALID_PARAMS", <<"schema must be a string">>, {})
  ELSE NoError

DbTools == {"execute_query", "list_tables", "describe_table"}

\* The names the CallTool handler hands to ConfigHandler.handleToolCall.
ConfigTools ==
  {"configure_connection", "get_connection_info", "test_connection",
   "list_available_clients"}

ValidateArgs(tool, args) ==
  CASE tool = "execute_query" -> ValidateExecuteQuery(args)
    [] tool = "describe_table" -> ValidateDescribeTable(args)
    [] tool = "list_tables" -> ValidateListTables(args)

CheckConfigured(cfg) ==
  IF ~IsConfigured(cfg)
    THEN ManagedError("NO_CONNECTION",
           <<"Database connection not configured.",
             "Use configure_connection tool first">>, {})
    ELSE NoError

\* Everything a handler does before it constructs its Client.  A call
\* without an arguments object dereferences undefined (a TypeError).
PreConnect(tool, noArgs, args, cfg) ==
  IF noArgs
    THEN RawError(TRUE, <<"Cannot read properties of undefined">>)
  ELSE IF ValidateArgs(tool, args) # NoError THEN ValidateArgs(tool, args)
  ELSE CheckConfigured(cfg)

(***************************************************************************)
(* PostgresServer: the catch block of the CallTool handler, and the reply  *)
(* the remote caller receives.                                             *)
(***************************************************************************)
ServerCatch(err) ==
  IF err.cls = "McpError" THEN err
  ELSE IF err.cls = "ManagedError"
    THEN McpError("InternalError", err.message, err.details)
  ELSE McpError("InternalError",
                IF err.cls = "Error" THEN err.message ELSE <<"Unknown error">>,
                {})

NoResp == [kind |-> "none", code |-> "", message |-> <<>>, data |-> {}]

Response(thrown) ==
  IF thrown = NoError
    THEN [kind |-> "result", code |-> "", message |-> <<>>, data |-> {}]
    ELSE [kind |-> "error", code |-> ServerCatch(thrown).code,
          message |-> ServerCatch(thrown).message,
          data |-> ServerCatch(thrown).details]

(***************************************************************************)
(* The database engine behind a pg Client, as far as the tools can see it: *)
(* one table of committed rows, and per connection a session that is       *)
(* either in autocommit or inside a transaction whose writes are pending   *)
(* until COMMIT and are discarded by ROLLBACK or by the end of the session.*)
(***************************************************************************)
\* Statements an execute_query call submits.
Statements == {"BEGIN", "INSERT", "ROLLBACK", "SELECT"}

\* The raw pg result of statement q on a session that sees rows rows.
EngineResult(q, rows) ==
  CASE q = "SELECT" -> [rowCount |-> rows, command |-> "SELECT", hasRowCount |-> TRUE]
    [] q = "INSERT" -> [rowCount |-> 1, command |-> "INSERT", hasRowCount |-> TRUE]
    [] OTHER -> [rowCount |-> 0, command |-> q, hasRowCount |-> FALSE]

\* Ways connect() is rejected, and ways query() is rejected: the cause, and
\* the message of the Error the client raises.
ConnectFailures ==
  {[cause |-> "timeout", msg |-> <<"timeout", "expired">>],
   [cause |-> "refused", msg |-> <<"connect", "ECONNREFUSED">>]}

QueryFailures ==
  {[cause |-> "permission", msg |-> <<"permission", "denied", "for", "table">>],
   [cause |-> "missing", msg |-> <<"relation", "does", "not", "exist">>],
   [cause |-> "syntax", msg |-> <<"syntax", "error", "at", "or", "near">>],
   [cause |-> "timeout", msg |-> <<"Query", "read", "timeout">>],
   [cause |-> "lost", msg |-> <<"Connection", "terminated", "unexpectedly">>]}

(***************************************************************************)
(* Text.  The strings describeTable searches with includes() and           *)
(* toLowerCase() are sequences of characters; a name is written as a       *)
(* string where only its identity matters and spelled out by Chars where   *)
(* its characters do.                                                      *)
(***************************************************************************)
\* The characters of the names the catalog uses.
Chars(s) ==
  CASE s = "public" -> <<"p", "u", "b", "l", "i", "c">>
    [] s = "audit" -> <<"a", "u", "d", "i", "t">>
    [] s = "pg_catalog" -> <<"p", "g", "_", "c", "a", "t", "a", "l", "o", "g">>
    [] s = "information_schema" -> <<"i", "n", "f", "o", "r", "m", "a", "t", "i", "o", "n", "_", "s", "c", "h", "e", "m", "a">>
    [] s = "users" -> <<"u", "s", "e", "r", "s">>
    [] s = "pairs" -> <<"p", "a", "i", "r", "s">>
    [] s = "logs" -> <<"l", "o", "g", "s">>
    [] s = "pg_class" -> <<"p", "g", "_", "c", "l", "a", "s", "s">>
    [] s = "sql_parts" -> <<"s", "q", "l", "_", "p", "a", "r", "t", "s">>
    [] s = "ghosts" -> <<"g", "h", "o", "s", "t", "s">>
    [] s = "id" -> <<"i", "d">>
    [] s = "name" -> <<"n", "a", "m", "e">>
    [] s = "a" -> <<"a">>
    [] s = "b" -> <<"b">>
    [] s = "users_pkey" -> <<"u", "s", "e", "r", "s", "_", "p", "k", "e", "y">>
    [] s = "idx_name" -> <<"i", "d", "x", "_", "n", "a", "m", "e">>
    [] s = "pairs_pkey" -> <<"p", "a", "i", "r", "s", "_", "p", "k", "e", "y">>
    [] s = "logs_name" -> <<"l", "o", "g", "s", "_", "n", "a", "m", "e">>
    [] s = "postgres" -> <<"p", "o", "s", "t", "g", "r", "e", "s">>
    [] s = "test_users" -> <<"t", "e", "s", "t", "_", "u", "s", "e", "r", "s">>
    [] s = "email" -> <<"e", "m", "a", "i", "l">>
    [] s = "test_users_pkey" ->
         <<"t", "e", "s", "t", "_", "u", "s", "e", "r", "s", "_", "p", "k", "e", "y">>
    [] s = "test_users_email_key" ->
         <<"t", "e", "s", "t", "_", "u", "s", "e", "r", "s", "_",
           "e", "m", "a", "i", "l", "_", "k", "e", "y">>

\* Fixed pieces of the text pg_get_indexdef produces, and the strings the
\* code searches for.
KwCreate == <<"C", "R", "E", "A", "T", "E", " ">>
KwUnique == <<"U", "N", "I", "Q", "U", "E", " ">>
KwIndex == <<"I", "N", "D", "E", "X", " ">>
KwOn == <<" ", "O", "N", " ">>
KwUsing == <<" ", "U", "S", "I", "N", "G", " ", "b", "t", "r", "e", "e", " ", "(">>
UniqueMarker == <<"u", "n", "i", "q", "u", "e">>
PkSeparator == <<",", " ">>

UpperCase == <<"A", "B", "C", "D", "E", "F", "G", "H", "I", "J", "K", "L", "M", "N", "O", "P", "Q", "R", "S", "T", "U", "V", "W", "X", "Y", "Z">>
LowerCase == <<"a", "b", "c", "d", "e", "f", "g", "h", "i", "j", "k", "l", "m", "n", "o", "p", "q", "r", "s", "t", "u", "v", "w", "x", "y", "z">>

\* String.prototype.toLowerCase
ToLowerCase(txt) ==
  [i \in DOMAIN txt |->
     IF \E k \in DOMAIN UpperCase : UpperCase[k] = txt[i]
       THEN LowerCase[CHOOSE k \in DOMAIN UpperCase : UpperCase[k] = txt[i]]
       ELSE txt[i]]

\* Array.prototype.join(sep) on an array of names
RECURSIVE Join(_, _)
Join(names, sep) ==
  IF Len(names) = 0 THEN <<>>
  ELSE IF Len(names) = 1 THEN Chars(names[1])
  ELSE Chars(names[1]) \o sep \o Join(Tail(names), sep)

(***************************************************************************)
(* The engine's catalog, and the three catalog queries of describeTable    *)
(* as the engine answers them.                                             *)
(***************************************************************************)
\* One row of information_schema.columns, as describeTable selects it.
\* A column the engine reports null for holds "null".
ColumnRow(name, type, nullable, default, maxLength, precision, scale) ==
  [column_name |-> name, data_type |-> type, is_nullable |-> nullable,
   column_default |-> default, character_maximum_length |-> maxLength,
   numeric_precision |-> precision, numeric_scale |-> scale]

\* pg_indexes.indexdef of a btree index.
IndexDef(unique, iname, schema, tname, cols) ==
  KwCreate \o (IF unique THEN KwUnique ELSE <<>>) \o KwIndex \o Chars(iname)
  \o KwOn \o Chars(schema) \o <<".">> \o Chars(tname) \o KwUsing
  \o Join(cols, PkSeparator) \o <<")">>

IndexRow(unique, iname, schema, tname, cols) ==
  [index_name |-> iname,
   index_definition |-> IndexDef(unique, iname, schema, tname, cols)]

\* The tables a database may hold.  pk lists the columns of the primary
\* key in key order under constraint pkName; indexes is a set.
UsersTable ==
  [schema |-> "public", name |-> "users", owner |-> "postgres",
   columns |-> <<ColumnRow("id", "integer", "NO",
                           "nextval('users_id_seq'::regclass)", "null", 32, 0),
                 ColumnRow("name", "text", "YES",
                           "null", "null", "null", "null")>>,
   pkName |-> "users_pkey", pk |-> <<"id">>,
   indexes |-> {IndexRow(TRUE, "users_pkey", "public", "users", <<"id">>),
                IndexRow(FALSE, "idx_name", "public", "users", <<"name">>)}]

PairsTable ==
  [schema |-> "public", name |-> "pairs", owner |-> "postgres",
   columns |-> <<ColumnRow("a", "integer", "NO",
                           "null", "null", 32, 0),
                 ColumnRow("b", "integer", "NO",
                           "null", "null", 32, 0),
                 ColumnRow("name", "text", "YES",
                           "null", "null", "null", "null")>>,
   pkName |-> "pairs_pkey", pk |-> <<"a", "b">>,
   indexes |-> {IndexRow(TRUE, "pairs_pkey", "public", "pairs", <<"a", "b">>)}]

LogsTable ==
  [schema |-> "audit", name |-> "logs", owner |-> "postgres",
   columns |-> <<ColumnRow("name", "text", "YES",
                           "null", "null", "null", "null")>>,
   pkName |-> "", pk |-> <<>>,
   indexes |-> {IndexRow(FALSE, "logs_name", "audit", "logs", <<"name">>)}]

UserTables == {UsersTable, PairsTable, LogsTable}

\* The table the integration test creates: a serial key, a unique column.
TestUsersTable ==
  [schema |-> "public", name |-> "test_users", owner |-> "postgres",
   columns |-> <<ColumnRow("id", "integer", "NO",
                           "nextval('test_users_id_seq'::regclass)", "null",
                           32, 0),
                 ColumnRow("name", "character varying", "NO",
                           "null", 255, "null", "null"),
                 ColumnRow("email", "character varying", "YES",
                           "null", 255, "null", "null"),
                 ColumnRow("age", "integer", "YES",
                           "null", "null", 32, 0),
                 ColumnRow("created_at", "timestamp without time zone", "YES",
                           "CURRENT_TIMESTAMP", "null", "null", "null")>>,
   pkName |-> "test_users_pkey", pk |-> <<"id">>,
   indexes |-> {IndexRow(TRUE, "test_users_pkey", "public", "test_users", <<"id">>),
                IndexRow(TRUE, "test_users_email_key", "public", "test_users",
                         <<"email">>)}]

\* Tables of the engine itself, which pg_tables lists too.
SystemTables ==
  {[schema |-> "pg_catalog", name |-> "pg_class", owner |-> "postgres",
    columns |-> <<ColumnRow("name", "name", "NO", "null", "null", "null",
                            "null")>>,
    pkName |-> "", pk |-> <<>>, indexes |-> {}],
   [schema |-> "information_schema", name |-> "sql_parts",
    owner |-> "postgres",
    columns |-> <<ColumnRow("name", "text", "YES",
                           "null", "null", "null", "null")>>,
    pkName |-> "", pk |-> <<>>, indexes |-> {}]}

Catalogs == {SystemTables \cup ts : ts \in SUBSET UserTables}

\* The database of the integration test.
TestCatalog == SystemTables \cup {TestUsersTable}

\* Every order in which the engine may return the rows of an unordered
\* query.
Orders(rows) ==
  {f \in [1..Cardinality(rows) -> rows] :
     \A i, j \in 1..Cardinality(rows) : i # j => f[i] # f[j]}

\* columnQuery: WHERE table_schema = $1 AND table_name = $2
\* ORDER BY ordinal_position.
ColumnQuery(cat, schema, tableName) ==
  IF \E t \in cat : t.schema = schema /\ t.name = tableName
    THEN (CHOOSE t \in cat : t.schema = schema /\ t.name = tableName).columns
    ELSE <<>>

\* indexQuery: WHERE schemaname = $1 AND tablename = $2, no ORDER BY.
IndexQuery(cat, schema, tableName) ==
  UNION {t.indexes : t \in {u \in cat : u.schema = schema /\ u.name = tableName}}

\* pkQuery: table_constraints joined with key_column_usage on constraint
\* name and schema, WHERE constraint_type = 'PRIMARY KEY' AND
\* table_schema = $1 AND table_name = $2, no ORDER BY.
PkQuery(cat, schema, tableName) ==
  UNION {{[column_name |-> k.pk[i], constraint |-> k.pkName, of |-> k.name] :
            i \in DOMAIN k.pk} :
         k \in {u \in cat : \E t \in cat : /\ t.pkName # ""
                                           /\ t.schema = schema
                                           /\ t.name = tableName
                                           /\ u.pkName = t.pkName
                                           /\ u.schema = t.schema}}

(***************************************************************************)
(* QueryExecutor.describeTable, from the rows the three queries returned.  *)
(***************************************************************************)
\* new Set(values): the distinct values, in order of first appearance.
RECURSIVE NewSet(_)
NewSet(values) ==
  IF values = <<>> THEN <<>>
  ELSE LET front == NewSet(SubSeq(values, 1, Len(values) - 1))
           last == values[Len(values)]
       IN IF \E i \in DOMAIN front : front[i] = last
            THEN front ELSE Append(front, last)

\* primaryKeyColumns.has(name)
SetHas(set, name) == \E i \in DOMAIN set : set[i] = name

\* The schema parameter of describeTable: schema: string = 'public'.
SchemaParam(schemaArg) ==
  IF schemaArg.type = "undefined" THEN "public" ELSE schemaArg.str

\* args.schema || 'public', as handleDescribeTable passes it on.
HandlerSchema(args) ==
  IF args.schema.truthy THEN args.schema ELSE JsStr("public")

NoDescription ==
  [schema |-> "", table |-> "", columns |-> <<>>, indexes |-> <<>>]

\* columns: one ColumnInfo per column row.
DescribeColumns_FirstKeyOnly(colRows, primaryKeyColumns) ==
  [i \in DOMAIN colRows |->
     [column_name |-> colRows[i].column_name,
      data_type |-> colRows[i].data_type,
      is_nullable |-> colRows[i].is_nullable,
      column_default |-> colRows[i].column_default,
      character_maximum_length |-> colRows[i].character_maximum_length,
      numeric_precision |-> colRows[i].numeric_precision,
      numeric_scale |-> colRows[i].numeric_scale,
      is_primary_key |-> /\ primaryKeyColumns # <<>>
                         /\ primaryKeyColumns[1] = colRows[i].column_name]]

DescribeColumns(colRows, primaryKeyColumns) ==
  [i \in DOMAIN colRows |->
     [column_name |-> colRows[i].column_name,
      data_type |-> colRows[i].data_type,
      is_nullable |-> colRows[i].is_nullable,
      column_default |-> colRows[i].column_default,
      character_maximum_length |-> colRows[i].character_maximum_length,
      numeric_precision |-> colRows[i].numeric_precision,
      numeric_scale |-> colRows[i].numeric_scale,
      is_primary_key |-> SetHas(primaryKeyColumns, colRows[i].column_name)]]

\* indexes: one IndexInfo per index row.
DescribeIndexes(idxRows, primaryKeyColumns) ==
  [i \in DOMAIN idxRows |->
     [index_name |-> idxRows[i].index_name,
      index_definition |-> idxRows[i].index_definition,
      is_primary |-> /\ Len(primaryKeyColumns) > 0
                     /\ Includes(idxRows[i].index_definition,
                                 Join(primaryKeyColumns, PkSeparator)),
      is_unique |-> Includes(ToLowerCase(idxRows[i].index_definition),
                             UniqueMarker)]]

\* The existence test on the column rows.
DescribeTableMissing_NoCheck(colRows) == FALSE

DescribeTableMissing(colRows) == Len(colRows) = 0

\* describeTable(client, tableName, schema) given what the engine returned
\* for the column, index and primary-key queries: what it throws, and what
\* it returns.
DescribeTable(colRows, idxRows, pkRows, tableName, schemaArg) ==
  LET schema == SchemaParam(schemaArg)
      primaryKeyColumns == NewSet([i \in DOMAIN pkRows |-> pkRows[i].column_name])
  IN IF DescribeTableMissing(colRows)
       THEN [thrown |-> ManagedError("TABLE_NOT_FOUND",
                          <<"Table", schema, tableName, "not found">>, {}),
             value |-> NoDescription]
       ELSE [thrown |-> NoError,
             value |-> [schema |-> schema, table |-> tableName,
                        columns |-> DescribeColumns(colRows, primaryKeyColumns),
                        indexes |-> DescribeIndexes(idxRows, primaryKeyColumns)]]

(***************************************************************************)
(* QueryExecutor.listTables: the statement it builds, and the engine's     *)
(* answer to it.  The SQL text is a sequence of clauses.                   *)
(***************************************************************************)
SelectFromPgTables == "SELECT ... FROM pg_tables"
WhereNotSystem ==
  "WHERE schemaname NOT IN ('information_schema', 'pg_catalog')"
AndSchemaIsParam == "AND schemaname = $1"
OrderBySchemaTable == "ORDER BY schemaname, tablename"

\* The statement with the filter dropped in favour of the schema test.
ListTablesQuery_FilterReplaces(schemaArg) ==
  IF schemaArg.truthy
    THEN [text |-> <<SelectFromPgTables, "WHERE schemaname = $1",
                     OrderBySchemaTable>>,
          params |-> <<schemaArg.str>>]
    ELSE [text |-> <<SelectFromPgTables, WhereNotSystem, OrderBySchemaTable>>,
          params |-> <<>>]

\* The statement and the parameters listTables hands to client.query.
ListTablesQuery(schemaArg) ==
  IF schemaArg.truthy
    THEN [text |-> <<SelectFromPgTables, WhereNotSystem, AndSchemaIsParam,
                     OrderBySchemaTable>>,
          params |-> <<schemaArg.str>>]
    ELSE [text |-> <<SelectFromPgTables, WhereNotSystem, OrderBySchemaTable>>,
          params |-> <<>>]

HasClause(text, clause) == \E i \in DOMAIN text : text[i] = clause

\* The names of the catalog in the order the engine's collation gives them.
Collation ==
  <<"audit", "information_schema", "logs", "pairs", "pg_catalog", "pg_class",
    "public", "sql_parts", "users">>

Rank(name) == CHOOSE i \in DOMAIN Collation : Collation[i] = name

\* Row r sorts before row q under ORDER BY schemaname, tablename.
SortsBefore(r, q) ==
  \/ Rank(r.schema) < Rank(q.schema)
  \/ r.schema = q.schema /\ Rank(r.name) < Rank(q.name)

\* The engine's answer to a statement over pg_tables: the rows every WHERE
\* clause of the text admits, in the order the text asks for (any order
\* when it asks for none).
PgTablesAnswers(cat, q) ==
  LET admitted ==
        {t \in cat :
           /\ HasClause(q.text, WhereNotSystem) =>
                t.schema \notin {"information_schema", "pg_catalog"}
           /\ HasClause(q.text, AndSchemaIsParam) => t.schema = q.params[1]
           /\ HasClause(q.text, "WHERE schemaname = $1") =>
                t.schema = q.params[1]}
  IN {f \in Orders(admitted) :
        HasClause(q.text, OrderBySchemaTable) =>
          \A i, j \in DOMAIN f : i < j => SortsBefore(f[i], f[j])}

\* result.rows.map(...): one TableInfo per row.
ListTablesResult(rows) ==
  [i \in DOMAIN rows |->
     [schema_name |-> rows[i].schema, table_name |-> rows[i].name,
      table_owner |-> rows[i].owner,
      has_indexes |-> rows[i].indexes # {}, has_triggers |-> FALSE]]

(***************************************************************************)
(* State.                                                                  *)
(***************************************************************************)
VARIABLES
  config,   \* ConfigHandler.config
  budget,   \* tool calls the remote caller may still make
  calls,    \* per slot: the tool call being served there (cfg: the
            \* configuration as it was when the call arrived)
  nextId,   \* identity of the next tool call
  conns,    \* every pg Client constructed so far, by identity
  nextConn, \* identity of the next Client constructed
  sent,     \* every client.query submission: who sent what on which Client
  table,    \* committed rows named 'Eve' in test_users
  txlog,    \* statements of execute_query calls answered with a result
  cin,      \* classifier harness: the value client.query rejected with
  cout,     \* classifier harness: what executeQuery threw for it
  catalog,  \* the engine's system catalog: the tables the database holds
  descs,    \* outcomes of the describeTable calls made so far, in order
  listed,   \* outcomes of the listTables calls made so far, in order
  execs,    \* per slot: the executeQuery call made there on a client of
            \* the caller's, pending at client.query or settled
  store,    \* dj-config-mcp: whether it is installed, and what it has
            \* persisted
  djConfigInitPromise,
            \* the import of dj-config-mcp the ConfigHandler constructor
            \* starts: pending, fulfilled (djConfig is the module) or
            \* rejected (djConfig stays undefined)
  exited,   \* the process that serves through PostgresServer has exited
            \* on the unhandled rejection of that import
  configHandler,
            \* index.ts: its McpConfigHandler (config), and whether
            \* initialize() has run
  accepted, \* some configure_connection call has passed its parameter check
  jobs      \* per slot: the configuration tool call, the resource request
            \* or the tool call to index.ts in progress there, followed
            \* await by await

\* The state only the schema inspector, the type catalog and the
\* configuration tools touch.
aux == <<catalog, descs, listed, execs, store, djConfigInitPromise, exited,
         configHandler, accepted, jobs>>

vars == <<config, budget, calls, nextId, conns, nextConn, sent, table, txlog,
          cin, cout, aux>>

Slots == 1..MaxConcurrent
ConnIds == 1..(MaxCalls + MaxTxCalls)

\* getConfig(): { ...this.config }, a new object holding the fields of the
\* handler's configuration.  ref tells whose object the descriptor is: a
\* write to a copy stays in the copy, a write to the stored object would be
\* a write to the configuration.
NoDescriptor == [ref |-> "none", value |-> NoConfig]

GetConfig_SameObject(cfg) == [ref |-> "stored", value |-> cfg]

GetConfig(cfg) == [ref |-> "copy", value |-> cfg]

IdleCall ==
  [id |-> 0, tool |-> "", noArgs |-> FALSE, args |-> NoArgs, cfg |-> NoConfig,
   descriptor |-> NoDescriptor,
   pc |-> "idle", conn |-> 0, qn |-> 0, cause |-> "none", failedAt |-> "none",
   got |-> <<>>, changed |-> FALSE,
   thrown |-> NoError, result |-> NoResult, resp |-> NoResp]

NoConn ==
  [owner |-> 0, state |-> "none", connects |-> 0, ends |-> 0,
   inTx |-> FALSE, pending |-> 0]

\* new Client({...}) followed by the call of connect().
FreshConn(owner) ==
  [owner |-> owner, state |-> "connecting", connects |-> 1, ends |-> 0,
   inTx |-> FALSE, pending |-> 0]

\* The identity of the Client a handler constructs: always a new object.
NewClientId_Shared == IF nextConn > 1 THEN 1 ELSE nextConn

NewClientId == nextConn

(***************************************************************************)
(* The handlers, step by step.  A handler runs synchronously up to its     *)
(* first await (connect), and then from await to await.                    *)
(***************************************************************************)
\* The statement a handler hands to client.query as its n-th query.
StatementOf_KeysBeforeIndexes(c, n) ==
  CASE c.tool = "execute_query" -> c.args.query.str
    [] c.tool = "list_tables" -> "LIST_TABLES"
    [] c.tool = "describe_table" ->
         CASE n = 1 -> "COLUMNS" [] n = 2 -> "PRIMARY_KEY" [] OTHER -> "INDEXES"

StatementOf(c, n) ==
  CASE c.tool = "execute_query" -> c.args.query.str
    [] c.tool = "list_tables" -> "LIST_TABLES"
    [] c.tool = "describe_table" ->
         CASE n = 1 -> "COLUMNS" [] n = 2 -> "INDEXES" [] OTHER -> "PRIMARY_KEY"

\* The parameter list a handler's executor hands to client.query:
\* params || [] for executeQuery (the kinds of the values), [schema] or []
\* for listTables, [schema, tableName] for describeTable.
ParamsOf(c) ==
  CASE c.tool = "execute_query" ->
         IF c.args.params.truthy THEN c.args.params.elems ELSE <<>>
    [] c.tool = "list_tables" ->
         IF c.args.schema.truthy THEN <<c.args.schema.str>> ELSE <<>>
    [] c.tool = "describe_table" ->
         <<IF c.args.schema.truthy THEN c.args.schema.str ELSE "public",
           c.args.table.str>>

\* client.query(...) called by call c on its Client, whose table is cs.
Submission(c, n, cs) ==
  [conn |-> c.conn, by |-> c.id, q |-> StatementOf(c, n), n |-> n,
   params |-> ParamsOf(c), state |-> cs[c.conn].state]

\* finally { await client.end(); }: entered with the handler's outcome in
\* rec (thrown or result) and the connection table cs.
Finally_SuccessOnly(s, rec, cs) ==
  IF rec.thrown = NoError
    THEN /\ conns' = [cs EXCEPT ![rec.conn].ends = @ + 1]
         /\ calls' = [calls EXCEPT ![s] = [rec EXCEPT !.pc = "ending"]]
    ELSE /\ conns' = cs
         /\ calls' = [calls EXCEPT ![s] =
                        [rec EXCEPT !.pc = "done", !.resp = Response(rec.thrown)]]

Finally(s, rec, cs) ==
  /\ conns' = [cs EXCEPT ![rec.conn].ends = @ + 1]
  /\ calls' = [calls EXCEPT ![s] = [rec EXCEPT !.pc = "ending"]]

\* The CallTool handler's switch and the handler it selects, up to the
\* first await: argument checks, configuration check, new Client,
\* connect() called.
InvokeDatabaseTool(s, call) ==
  /\ ~exited
  /\ calls[s].pc = "idle"
  /\ budget > 0
  /\ budget' = budget - 1
  /\ nextId' = nextId + 1
  /\ LET base == [IdleCall EXCEPT !.id = nextId, !.tool = call.tool,
                                  !.noArgs = call.noArgs, !.args = call.args,
                                  !.cfg = config]
         unknown == McpError("MethodNotFound", <<"Unknown tool">>, {})
         pre == PreConnect(call.tool, call.noArgs, call.args, config)
     IN IF call.tool \notin DbTools
          THEN /\ calls' = [calls EXCEPT ![s] =
                              [base EXCEPT !.pc = "done", !.thrown = unknown,
                                           !.resp = Response(unknown)]]
               /\ UNCHANGED <<conns, nextConn>>
        ELSE IF pre # NoError
          THEN /\ calls' = [calls EXCEPT ![s] =
                              [base EXCEPT !.pc = "done", !.thrown = pre,
                                           !.resp = Response(pre)]]
               /\ UNCHANGED <<conns, nextConn>>
        ELSE /\ calls' = [calls EXCEPT ![s] =
                            [base EXCEPT !.pc = "connecting", !.conn = NewClientId,
                                         !.descriptor = GetConfig(config)]]
             /\ conns' = [conns EXCEPT ![NewClientId] = FreshConn(nextId)]
             /\ nextConn' = nextConn + 1
  /\ UNCHANGED <<config, sent, table, txlog, cin, cout, aux>>

\* connect() resolves; the handler calls the executor, which submits its
\* first query.
ConnectOk(s) ==
  /\ ~exited
  /\ calls[s].pc = "connecting"
  /\ LET c == calls[s]
         cs == [conns EXCEPT ![c.conn].state = "connected"]
     IN /\ conns' = cs
        /\ sent' = sent \cup {Submission(c, 1, cs)}
        /\ calls' = [calls EXCEPT ![s].pc = "query", ![s].qn = 1]
  /\ UNCHANGED <<config, budget, nextId, nextConn, table, txlog, cin, cout, aux>>

\* connect() rejects: the raw error leaves the try block.
ConnectFail(s, f) ==
  /\ ~exited
  /\ calls[s].pc = "connecting"
  /\ LET c == calls[s]
         cs == [conns EXCEPT ![c.conn].state = "failed"]
     IN Finally(s, [c EXCEPT !.cause = f.cause, !.failedAt = "connect",
                             !.thrown = RawError(TRUE, f.msg)], cs)
  /\ UNCHANGED <<config, budget, nextId, nextConn, sent, table, txlog, cin, cout, aux>>

\* The session of connection k after the engine ran statement q on it.
SessionAfter(k, q) ==
  CASE q = "BEGIN" -> [k EXCEPT !.inTx = TRUE]
    [] q = "INSERT" /\ k.inTx -> [k EXCEPT !.pending = @ + 1]
    [] q = "ROLLBACK" -> [k EXCEPT !.inTx = FALSE, !.pending = 0]
    [] OTHER -> k

\* The committed rows after the engine ran statement q on session k.
TableAfter(k, q) ==
  IF q = "INSERT" /\ ~k.inTx THEN table + 1 ELSE table

\* The rows the engine answers call c's query in flight with, in every
\* order it may return them: the column query is ordered, the index and
\* primary-key queries are not.
DescribeAnswers(c) ==
  LET schema == SchemaParam(HandlerSchema(c.args))
      tableName == c.args.table.str
  IN CASE c.qn = 1 -> {ColumnQuery(catalog, schema, tableName)}
       [] c.qn = 2 -> Orders(IndexQuery(catalog, schema, tableName))
       [] OTHER -> Orders(PkQuery(catalog, schema, tableName))

\* The rows of the n-th query of a call, none while it has not answered.
Got(c, n) == IF n <= Len(c.got) THEN c.got[n] ELSE <<>>

\* What describeTable and listTables return to the handler of call c
\* from the rows the engine answered with.
DescriptionOf(c) ==
  DescribeTable(Got(c, 1), Got(c, 2), Got(c, 3), c.args.table.str,
                HandlerSchema(c.args)).value

TablesOf(c) == ListTablesResult(Got(c, 1))

\* client.query resolves.
QueryOk(s) ==
  /\ ~exited
  /\ calls[s].pc = "query"
  /\ LET c == calls[s]
         k == conns[c.conn]
         q == StatementOf(c, c.qn)
     IN CASE c.tool = "execute_query" ->
               /\ table' = TableAfter(k, q)
               /\ Finally(s, [c EXCEPT !.result =
                                ExecuteQueryReturn(EngineResult(q, table + k.pending))],
                          [conns EXCEPT ![c.conn] = SessionAfter(k, q)])
               /\ UNCHANGED sent
          [] c.tool = "list_tables" ->
               \E rows \in PgTablesAnswers(catalog, ListTablesQuery(c.args.schema)) :
                 /\ Finally(s, [c EXCEPT !.got = <<rows>>,
                                         !.result = [kind |-> "TableList",
                                                     rowCount |-> Len(rows),
                                                     command |-> ""]],
                            conns)
                 /\ UNCHANGED <<sent, table>>
          [] c.tool = "describe_table" ->
               \E rows \in DescribeAnswers(c) :
                 LET got == Append(c.got, rows)
                     r == [c EXCEPT !.got = got]
                     out == DescribeTable(Got(r, 1), Got(r, 2), Got(r, 3),
                                          c.args.table.str, HandlerSchema(c.args))
                 IN IF c.qn = 1 /\ out.thrown # NoError
                      THEN /\ Finally(s, [r EXCEPT !.thrown = out.thrown], conns)
                           /\ UNCHANGED <<sent, table>>
                    ELSE IF c.qn < 3
                      THEN /\ sent' = sent \cup {Submission(c, c.qn + 1, conns)}
                           /\ calls' = [calls EXCEPT ![s] = [r EXCEPT !.qn = c.qn + 1]]
                           /\ UNCHANGED <<conns, table>>
                    ELSE /\ Finally(s, [r EXCEPT !.result =
                                                   [kind |-> "TableDescription",
                                                    rowCount |-> Len(got[1]),
                                                    command |-> ""]],
                                    conns)
                         /\ UNCHANGED <<sent, table>>
  /\ UNCHANGED <<config, budget, nextId, nextConn, txlog, cin, cout, aux>>

\* client.query rejects.  executeQuery catches and classifies; listTables
\* and describeTable have no catch.
QueryFail_Retry(s, f) ==
  /\ ~exited
  /\ calls[s].pc = "query"
  /\ LET c == calls[s]
         raw == RawError(TRUE, f.msg)
         thrown == IF c.tool = "execute_query" THEN ExecuteQueryCatch(raw) ELSE raw
     IN /\ Finally(s, [c EXCEPT !.cause = f.cause, !.failedAt = "query",
                                !.thrown = thrown], conns)
        /\ sent' = sent \cup {Submission(c, c.qn + 1, conns)}
  /\ UNCHANGED <<config, budget, nextId, nextConn, table, txlog, cin, cout, aux>>

QueryFail(s, f) ==
  /\ ~exited
  /\ calls[s].pc = "query"
  /\ LET c == calls[s]
         raw == RawError(TRUE, f.msg)
         thrown == IF c.tool = "execute_query" THEN ExecuteQueryCatch(raw) ELSE raw
     IN Finally(s, [c EXCEPT !.cause = f.cause, !.failedAt = "query",
                             !.thrown = thrown], conns)
  /\ UNCHANGED <<config, budget, nextId, nextConn, sent, table, txlog, cin, cout, aux>>

\* end() resolves: the session is gone, with whatever it had pending; the
\* handler returns or rethrows, and PostgresServer builds the reply.
EndDone(s) ==
  /\ ~exited
  /\ calls[s].pc = "ending"
  /\ LET c == calls[s]
     IN /\ conns' = [conns EXCEPT ![c.conn].state = "ended",
                                  ![c.conn].inTx = FALSE, ![c.conn].pending = 0]
        /\ calls' = [calls EXCEPT ![s].pc = "done", ![s].resp = Response(c.thrown)]
  /\ UNCHANGED <<config, budget, nextId, nextConn, sent, table, txlog, cin, cout, aux>>

\* The reply reaches the remote caller, who is done with the call.
Respond(s) ==
  /\ calls[s].pc = "done"
  /\ calls' = [calls EXCEPT ![s] = IdleCall]
  /\ sent' = {e \in sent : e.by # calls[s].id}
  /\ UNCHANGED <<config, budget, nextId, conns, nextConn, table, txlog, cin, cout, aux>>

\* The same, for a caller that keeps a transcript: of the statements that
\* were answered with a result (the integration test reads rowCount), and
\* of what the describe_table and list_tables calls that reached the
\* engine were answered and returned or threw.  changed tells that the
\* catalog changed while the call was served.
Observe(s) ==
  /\ calls[s].pc = "done"
  /\ LET c == calls[s]
     IN /\ txlog' = IF c.tool = "execute_query" /\ c.thrown = NoError
                      THEN Append(txlog, [q |-> c.args.query.str,
                                          rowCount |-> c.result.rowCount])
                      ELSE txlog
        /\ descs' = IF c.tool = "describe_table" /\ c.conn # 0
                      THEN Append(descs,
                             [table |-> c.args.table.str,
                              schemaArg |-> c.args.schema,
                              catalog |-> catalog, changed |-> c.changed,
                              colRows |-> Got(c, 1), idxRows |-> Got(c, 2),
                              pkRows |-> Got(c, 3),
                              thrown |-> c.thrown,
                              value |-> IF c.thrown = NoError
                                          THEN DescriptionOf(c)
                                          ELSE NoDescription])
                      ELSE descs
        /\ listed' = IF c.tool = "list_tables" /\ c.conn # 0
                       THEN Append(listed,
                              [schemaArg |-> c.args.schema,
                               query |-> ListTablesQuery(c.args.schema),
                               thrown |-> c.thrown,
                               tables |-> IF c.thrown = NoError THEN TablesOf(c)
                                                                ELSE <<>>])
                       ELSE listed
  /\ calls' = [calls EXCEPT ![s] = IdleCall]
  /\ sent' = {e \in sent : e.by # calls[s].id}
  /\ UNCHANGED <<config, budget, nextId, conns, nextConn, table, cin, cout,
                 catalog, execs, djConfigInitPromise, exited, configHandler, store, accepted, jobs>>

\* Another session drops the table a describe_table call is describing
\* (the integration test drops its table around its runs) while the call
\* waits for the answer to its index query.
DropTable(s, t) ==
  /\ calls[s].pc = "query"
  /\ calls[s].tool = "describe_table"
  /\ calls[s].qn = 2
  /\ t \in catalog \ SystemTables
  /\ t.schema = SchemaParam(HandlerSchema(calls[s].args))
  /\ t.name = calls[s].args.table.str
  /\ catalog' = catalog \ {t}
  /\ calls' = [x \in Slots |-> IF calls[x].pc = "idle" THEN calls[x]
                                ELSE [calls[x] EXCEPT !.changed = TRUE]]
  /\ UNCHANGED <<config, budget, nextId, conns, nextConn, sent, table,
                 txlog, cin, cout, descs, listed, execs, djConfigInitPromise, exited, configHandler, store, accepted, jobs>>

\* Whoever holds the descriptor a handler got from getConfig() writes a
\* password into it.  The write reaches the handler's configuration only if
\* the descriptor is the stored object itself.
WriteDescriptor(s, password) ==
  /\ calls[s].pc \in {"connecting", "query", "ending"}
  /\ calls[s].descriptor.value.password # password
  /\ calls' = [calls EXCEPT ![s].descriptor.value.password = password]
  /\ config' = IF calls[s].descriptor.ref = "stored"
                 THEN [config EXCEPT !.password = password]
                 ELSE config
  /\ UNCHANGED <<budget, nextId, conns, nextConn, sent, table, txlog, cin, cout, aux>>

\* The classifier on its own: executeQuery's catch applied to one rejection.
Classify ==
  /\ cin # NoError
  /\ cout = NoError
  /\ cout' = ExecuteQueryCatch(cin)
  /\ UNCHANGED <<config, budget, calls, nextId, conns, nextConn, sent, table,
                 txlog, cin, aux>>

(***************************************************************************)
(* What the remote caller may send.                                        *)
(***************************************************************************)
Call(tool, args) == [tool |-> tool, noArgs |-> FALSE, args |-> args]
BareCall(tool) == [tool |-> tool, noArgs |-> TRUE, args |-> NoArgs]

ExecArgs(q, p) == [NoArgs EXCEPT !.query = q, !.params = p]
TableArgs(t, sch) == [NoArgs EXCEPT !.table = t, !.schema = sch]

\* The statements of the transaction scenario, each its own tool call.
TxCalls ==
  {Call("execute_query", ExecArgs(JsStr("BEGIN"), JsUndefined)),
   Call("execute_query",
        ExecArgs(JsStr("INSERT"), JsArray(<<"string", "string", "number">>))),
   Call("execute_query", ExecArgs(JsStr("ROLLBACK"), JsUndefined)),
   Call("execute_query", ExecArgs(JsStr("SELECT"), JsArray(<<"string">>)))}

\* The calls of the concurrent specification: a single-statement tool, a
\* multi-statement tool on a table that exists and on one that does not,
\* and a call that is refused before it gets a connection.
Calls ==
  {Call("execute_query", ExecArgs(JsStr("INSERT"), JsArray(<<"string">>))),
   Call("list_tables", NoArgs),
   Call("describe_table", TableArgs(JsStr("test_users"), JsUndefined)),
   Call("describe_table", TableArgs(JsStr("nonexistent_table"), JsUndefined)),
   Call("describe_table", TableArgs(JsUndefined, JsUndefined))}

\* Every shape of params, arrays up to MaxParams elements.
AllParams ==
  {JsUndefined, JsNull, JsStr(""), JsStr("x"), JsNum(FALSE), JsNum(TRUE),
   JsBool(FALSE), JsBool(TRUE), JsObject}
  \cup {JsArray(es) : es \in UNION {[1..n -> ElemTags] : n \in 0..MaxParams}}

\* Every shape of a string-valued argument.
AllNames(names) ==
  {JsUndefined, JsNull, JsStr(""), JsNum(FALSE), JsNum(TRUE), JsObject,
   JsArray(<<>>)} \cup {JsStr(n) : n \in names}

\* The calls of the argument-validation specification.
AllCalls ==
  {Call("execute_query", ExecArgs(q, p)) :
     q \in AllNames({"SELECT"}), p \in AllParams}
  \cup {Call("describe_table", TableArgs(t, sch)) :
          t \in AllNames({"test_users", "nonexistent_table"}),
          sch \in AllNames({"public", "audit"})}
  \cup {Call("list_tables", TableArgs(JsUndefined, sch)) :
          sch \in AllNames({"public", "audit"})}
  \cup {BareCall(t) : t \in DbTools}
  \cup {Call("no_such_tool", NoArgs)}

\* The environment the server process starts in.
Environments ==
  [host : {""}, port : {""}, database : {""}, user : {""},
   password : {"", "secret"}, ssl : {""}]

\* Engine messages the classifier is tried on: every sequence of at most
\* MaxMsgLen of the words its tests look for.
ClassifierWords ==
  {"permission", "denied", "does", "not", "exist", "syntax", "error"}

ClassifierMessages ==
  UNION {[1..n -> ClassifierWords] : n \in 0..MaxMsgLen}

\* The arguments of the describe_table and list_tables calls tried.
DescribeArgs ==
  {TableArgs(JsStr(t), s) :
     t \in {"users", "pairs", "logs"},
     s \in {JsUndefined, JsStr("public"), JsStr("audit")}}

ListArgs ==
  {TableArgs(JsUndefined, s) :
     s \in {JsUndefined, JsNull, JsStr(""), JsNum(FALSE), JsBool(FALSE),
            JsStr("public"), JsStr("audit"), JsStr("ghosts"),
            JsStr("pg_catalog"), JsStr("information_schema")}}

(***************************************************************************)
(* The type catalog, and executeQuery's mapping of result.fields.          *)
(***************************************************************************)
PG_DATA_TYPES ==
  16 :> "bool" @@ 17 :> "bytea" @@ 18 :> "char" @@ 19 :> "name"
  @@ 20 :> "int8" @@ 21 :> "int2" @@ 23 :> "int4" @@ 25 :> "text"
  @@ 26 :> "oid" @@ 114 :> "json" @@ 700 :> "float4" @@ 701 :> "float8"
  @@ 1000 :> "_bool" @@ 1001 :> "_bytea" @@ 1002 :> "_char" @@ 1003 :> "_name"
  @@ 1005 :> "_int2" @@ 1007 :> "_int4" @@ 1009 :> "_text" @@ 1014 :> "_bpchar"
  @@ 1015 :> "_varchar" @@ 1016 :> "_int8" @@ 1021 :> "_float4" @@ 1022 :> "_float8"
  @@ 1042 :> "bpchar" @@ 1043 :> "varchar" @@ 1082 :> "date" @@ 1083 :> "time"
  @@ 1114 :> "timestamp" @@ 1115 :> "_timestamp" @@ 1184 :> "timestamptz" @@ 1185 :> "_timestamptz"
  @@ 1186 :> "interval" @@ 1187 :> "_interval" @@ 1231 :> "_numeric" @@ 1263 :> "_cstring"
  @@ 1700 :> "numeric" @@ 2950 :> "uuid" @@ 2951 :> "_uuid" @@ 3802 :> "jsonb"
  @@ 3807 :> "_jsonb"

\* PG_DATA_TYPES[id] || `oid:${id}`: the name as a one-piece text, or the
\* prefix followed by the identifier.
ResolveTypeName_NoFallback(id) ==
  IF id \in DOMAIN PG_DATA_TYPES THEN <<PG_DATA_TYPES[id]>> ELSE <<"undefined">>

ResolveTypeName(id) ==
  IF id \in DOMAIN PG_DATA_TYPES /\ PG_DATA_TYPES[id] # ""
    THEN <<PG_DATA_TYPES[id]>>
    ELSE <<"oid:", id>>

\* result.fields?.map(...) || []: raw.present says whether the result
\* carries a fields array at all.
MapFields(raw) ==
  IF raw.present
    THEN [i \in DOMAIN raw.list |->
            [name |-> raw.list[i].name, dataTypeID |-> raw.list[i].dataTypeID,
             dataTypeName |-> ResolveTypeName(raw.list[i].dataTypeID)]]
    ELSE <<>>

\* Type identifiers the engine may report that the table does not hold
\* (regproc, xid, point, money, record, a user-defined type).
UnknownTypeIds == {24, 28, 600, 790, 2249, 16384}

TypeIds == DOMAIN PG_DATA_TYPES \cup UnknownTypeIds

\* The field descriptors a result may carry: none at all, or up to
\* MaxFields columns.
RawFields ==
  {[present |-> FALSE, list |-> <<>>]}
  \cup {[present |-> TRUE,
         list |-> [i \in DOMAIN ids |-> [name |-> "column", dataTypeID |-> ids[i]]]] :
          ids \in UNION {[1..n -> TypeIds] : n \in 0..MaxFields}}

(***************************************************************************)
(* QueryExecutor.executeQuery called on a client of the caller's, which    *)
(* answers the one query with a pg result or rejects it.  A statement is   *)
(* the sequence of its characters; startTime and now are the two readings  *)
(* of Date.now(), the system clock, which may be set back between them.    *)
(* The call reads the clock and submits the query, and goes on when the    *)
(* query has settled; calls may overlap.                                   *)
(***************************************************************************)
\* String.prototype.substring(from, to) for 0 <= from <= to.
Substring(txt, from, to) ==
  SubSeq(txt, from + 1, IF to < Len(txt) THEN to ELSE Len(txt))

\* query.substring(0, 100): what the details of a classified error keep of
\* the statement.
QueryPrefixLength == 100

QueryPrefix_Whole(query) == query

QueryPrefix(query) == Substring(query, 0, QueryPrefixLength)

\* The details object of the error the catch block throws: every branch
\* puts the prefix of the statement under query, the last one also
\* Date.now() - startTime under executionTime.  keys are the keys the
\* branch taken puts in.
ErrorDetails(keys, query, startTime, now) ==
  [keys |-> keys,
   query |-> IF "query" \in keys THEN QueryPrefix(query) ELSE <<>>,
   executionTime |-> IF "executionTime" \in keys THEN now - startTime ELSE 0]

NoDetails == [keys |-> {}, query |-> <<>>, executionTime |-> 0]

\* The QueryResult of the success path: executionTime is the difference of
\* the two clock readings.
NoQueryResult ==
  [rowCount |-> 0, command |-> "", fields |-> <<>>, executionTime |-> 0]

QueryResultOf(raw, startTime, now) ==
  [rowCount |-> ExecuteQueryReturn(raw).rowCount,
   command |-> ExecuteQueryReturn(raw).command,
   fields |-> MapFields(raw.fields),
   executionTime |-> now - startTime]

\* executeQuery(client, query): answer is what client.query settled with,
\* startTime the clock reading before the query was submitted, now the
\* reading after it settled.
ExecuteQuery(query, answer, startTime, now) ==
  IF answer.ok
    THEN [thrown |-> NoError, details |-> NoDetails,
          result |-> QueryResultOf(answer.raw, startTime, now)]
    ELSE LET err == ExecuteQueryCatch(answer.error)
         IN [thrown |-> err,
             details |-> ErrorDetails(err.details, query, startTime, now),
             result |-> NoQueryResult]

\* The executeQuery calls that can be in progress at the same time.
ExecSlots == {1, 2}

NoRaw ==
  [rowCount |-> 0, command |-> "", hasRowCount |-> FALSE,
   fields |-> [present |-> FALSE, list |-> <<>>]]

NoAnswer == [raw |-> NoRaw, ok |-> FALSE, error |-> NoError]

NoOutcome == [thrown |-> NoError, details |-> NoDetails, result |-> NoQueryResult]

IdleExec ==
  [pc |-> "idle", query |-> <<>>, startTime |-> 0, answer |-> NoAnswer,
   now |-> 0, out |-> NoOutcome]

\* executeQuery is called: it reads the clock (startTime) and submits the
\* statement with client.query, whose answer it awaits.
ExecuteQueryBegin(s, query, startTime) ==
  /\ execs[s].pc = "idle"
  /\ execs' = [execs EXCEPT ![s] = [IdleExec EXCEPT !.pc = "query",
                                                    !.query = query,
                                                    !.startTime = startTime]]
  /\ UNCHANGED <<config, budget, calls, nextId, conns, nextConn, sent, table,
                 txlog, cin, cout, jobs, catalog, descs, listed, store,
                 djConfigInitPromise, exited, configHandler, accepted>>

\* client.query settles with answer: the call reads the clock again (now)
\* and returns the QueryResult, or classifies the rejection and throws.
ExecuteQuerySettle(s, answer, now) ==
  /\ execs[s].pc = "query"
  /\ execs' = [execs EXCEPT ![s] =
                 [@ EXCEPT !.pc = "done", !.answer = answer, !.now = now,
                           !.out = ExecuteQuery(execs[s].query, answer,
                                                execs[s].startTime, now)]]
  /\ UNCHANGED <<config, budget, calls, nextId, conns, nextConn, sent, table,
                 txlog, cin, cout, jobs, catalog, descs, listed, store,
                 djConfigInitPromise, exited, configHandler, accepted>>

\* A statement of n characters, each character standing for its position.
StatementText(n) == [i \in 1..n |-> i]

\* Statements shorter than the prefix, as long as it, and longer.
QueryTexts == {StatementText(n) : n \in {1, 2, 99, 100, 101, 150}}

\* What client.query may settle with: results with and without a row
\* count, a command tag and a field list, and every rejection.
FieldLists ==
  {[present |-> FALSE, list |-> <<>>],
   [present |-> TRUE, list |-> <<>>],
   [present |-> TRUE, list |-> <<[name |-> "id", dataTypeID |-> 23]>>],
   [present |-> TRUE, list |-> <<[name |-> "name", dataTypeID |-> 1043],
                                 [name |-> "at", dataTypeID |-> 600]>>]}

Answers ==
  {[raw |-> [rowCount |-> n, command |-> c, hasRowCount |-> h, fields |-> f],
    ok |-> TRUE, error |-> NoError] :
      h \in BOOLEAN, n \in {0, 2}, c \in {"", "SELECT"}, f \in FieldLists}
  \cup {[raw |-> NoRaw, ok |-> FALSE, error |-> RawError(TRUE, x.msg)] :
          x \in QueryFailures}

\* What the client answers the overlapping call with.
OverlapAnswers ==
  {a \in Answers :
     \/ a.ok /\ a.raw.hasRowCount /\ a.raw.rowCount = 2
          /\ a.raw.command = "SELECT" /\ Len(a.raw.fields.list) = 1
     \/ ~a.ok /\ Includes(a.error.message, <<"syntax", "error">>)}

\* The readings of the system clock.
Clock == 0..MaxClock

(***************************************************************************)
(* ConfigHandler: the configuration tools.  The configuration is kept in   *)
(* memory (config) and persisted through dj-config-mcp (store), key by     *)
(* key, every value as a string; a connection test loads what is           *)
(* persisted back into memory before it connects.                          *)
(***************************************************************************)
NoConfigArgs ==
  [host |-> JsUndefined, port |-> JsUndefined, database |-> JsUndefined,
   user |-> JsUndefined, password |-> JsUndefined, ssl |-> JsUndefined]

\* A port number as it arrives in args, given by its decimal text.
JsPort(text) == [type |-> "number", truthy |-> TRUE, str |-> text, elems |-> <<>>]

\* !host || !database || !user || !password
ConfigArgsMissing(args) ==
  \/ ~args.host.truthy
  \/ ~args.database.truthy
  \/ ~args.user.truthy
  \/ ~args.password.truthy

InvalidConfigParams ==
  McpError("InvalidParams",
           <<"Invalid ", "parameters", ": ",
             "host, database, user, and password are required">>, {})

\* ssl !== undefined ? ssl : true: the value kept as config.ssl and the
\* one whose toString() the sixth configSet is given.
SslOrDefault(args) == IF args.ssl.type # "undefined" THEN args.ssl ELSE JsBool(TRUE)

\* this.config = { host, port: port || 5432, ..., ssl: ssl !== undefined ?
\* ssl : true, ... }, and the same without the password.  ssl is kept as
\* the value it arrived as.
ConfigFromArgs_NoPassword(args) ==
  [host |-> args.host.str,
   port |-> IF args.port.truthy THEN ParseInt(JsToString(args.port)) ELSE 5432,
   database |-> args.database.str,
   user |-> args.user.str,
   password |-> "",
   ssl |-> SslOrDefault(args)]

ConfigFromArgs(args) ==
  [host |-> args.host.str,
   port |-> IF args.port.truthy THEN ParseInt(JsToString(args.port)) ELSE 5432,
   database |-> args.database.str,
   user |-> args.user.str,
   password |-> args.password.str,
   ssl |-> SslOrDefault(args)]

\* The value the configSet call for key is given: the argument itself,
\* (port || 5432).toString(), (ssl !== undefined ? ssl : true).toString().
ConfigSetValue(args, key) ==
  CASE key = "port" -> IF args.port.truthy THEN JsToString(args.port) ELSE "5432"
    [] key = "ssl" -> JsToString(SslOrDefault(args))
    [] OTHER -> args[key].str

\* Evaluating that value throws: null has no toString().
ConfigSetThrows(args, key) == key = "ssl" /\ ~HasToString(SslOrDefault(args))

\* The store after the configSet calls of one configure_connection call:
\* six, or the five before the one whose value cannot be evaluated.
StoreAfterSet(st, args) ==
  [st EXCEPT !.host = ConfigSetValue(args, "host"),
             !.port = ConfigSetValue(args, "port"),
             !.database = ConfigSetValue(args, "database"),
             !.user = ConfigSetValue(args, "user"),
             !.password = ConfigSetValue(args, "password"),
             !.ssl = IF ConfigSetThrows(args, "ssl") THEN st.ssl
                     ELSE ConfigSetValue(args, "ssl"),
             !.sslSet = st.sslSet \/ ~ConfigSetThrows(args, "ssl")]

LoadFromStore_Overwrite(cfg, st) ==
  [host |-> st.host,
   port |-> IF st.port # "" THEN ParseInt(st.port) ELSE cfg.port,
   database |-> st.database,
   user |-> st.user,
   password |-> st.password,
   ssl |-> IF st.sslSet THEN JsBool(st.ssl = "true") ELSE cfg.ssl]

\* testConnectionInternal's reload: every persisted value that is truthy
\* replaces the one in memory; ssl becomes whether the persisted text is
\* 'true' whenever there is one.
LoadFromStore(cfg, st) ==
  [host |-> IF st.host # "" THEN st.host ELSE cfg.host,
   port |-> IF st.port # "" THEN ParseInt(st.port) ELSE cfg.port,
   database |-> IF st.database # "" THEN st.database ELSE cfg.database,
   user |-> IF st.user # "" THEN st.user ELSE cfg.user,
   password |-> IF st.password # "" THEN st.password ELSE cfg.password,
   ssl |-> IF st.sslSet THEN JsBool(st.ssl = "true") ELSE cfg.ssl]

(***************************************************************************)
(* The configuration tools and the resource handlers, followed from await  *)
(* to await: the import of dj-config-mcp that the constructor starts and   *)
(* handleConfigConnection and handleGetConnectionInfo await, the configSet *)
(* and configGet calls, the Client that testConnectionInternal opens, and  *)
(* the ListResources and ReadResource handlers of index.ts, which connect  *)
(* through createClient with the configuration of index.ts's own           *)
(* McpConfigHandler, the config and test_connection tools of that         *)
(* McpConfigHandler, and the database tools of index.ts.  Calls may        *)
(* overlap: each await lets another call run.                              *)
(***************************************************************************)
\* McpConfigHandler.getDefaultConfig(): no environment is read.
McpDefaultConfig ==
  [host |-> "localhost", port |-> 5432, database |-> "postgres",
   user |-> "postgres", password |-> "", ssl |-> JsBool(TRUE)]

\* McpConfigHandler.loadConfig(): every key getConfigValue finds a value
\* for replaces the one in memory, the port as a number, ssl as whether
\* the value is 'true'.
LoadConfig(cfg, st) ==
  [host |-> IF st.host # "" THEN st.host ELSE cfg.host,
   port |-> IF st.port # "" THEN ParseInt(st.port) ELSE cfg.port,
   database |-> IF st.database # "" THEN st.database ELSE cfg.database,
   user |-> IF st.user # "" THEN st.user ELSE cfg.user,
   password |-> IF st.password # "" THEN st.password ELSE cfg.password,
   ssl |-> IF st.sslSet THEN JsBool(st.ssl = "true") ELSE cfg.ssl]

\* index.ts after new McpConfigHandler(false), before initialize().
NewMcpConfigHandler == [config |-> McpDefaultConfig, initialized |-> FALSE]

JobSlots == {1, 2}

\* The keys in the order of the configSet and of the configGet calls.
StoreKeys == <<"host", "port", "database", "user", "password", "ssl">>

\* The keys in the order handleGetConnectionInfo reads them.
InfoKeys == <<"host", "port", "database", "user", "ssl", "password">>

\* What the configGet calls of one request have returned so far.
NothingLoaded ==
  [host |-> "", port |-> "", database |-> "", user |-> "", password |-> "",
   ssl |-> "", sslSet |-> FALSE]

\* handler: the class whose method serves the request ("index" for the
\* handlers index.ts defines itself).  args: the arguments of a
\* configuration tool, toolArgs: those of a database tool.  q: the
\* statement the handler has submitted on its Client.  before: the configuration of that
\* handler and the store as the request found them, and whether djConfig
\* was the imported module then.
IdleJob ==
  [id |-> 0, kind |-> "", handler |-> "", noArgs |-> FALSE,
   args |-> NoConfigArgs, toolArgs |-> NoArgs, uri |-> "",
   before |-> [config |-> NoConfig, store |-> NoStore, djConfig |-> FALSE],
   pc |-> "idle", k |-> 0, loaded |-> NothingLoaded, conn |-> 0, q |-> "",
   outcome |-> "none"]

\* The statement a handler submits once it is connected: the database
\* tools of index.ts submit args.query, the query on
\* information_schema.columns and the one on pg_tables; a resource URI
\* that names neither the overview nor a schema submits none.
JobStatement(j) ==
  CASE j.handler = "McpConfigHandler" -> "SELECT_NOW_VERSION"
    [] j.kind = "execute_query" -> "ARGS_QUERY"
    [] j.kind = "describe_table" -> "COLUMNS"
    [] j.kind = "list_tables" -> "PG_TABLES_NOT_SYSTEM"
    [] j.kind \in {"configure_connection", "test_connection"} -> "SELECT_VERSION"
    [] j.kind = "list_resources" -> "SCHEMATA"
    [] j.kind = "read_resource" /\ j.uri = "overview" -> "PG_TABLES"
    [] j.kind = "read_resource" /\ j.uri = "schema" -> "SCHEMA_TABLES"
    [] OTHER -> ""

\* Whether the handler calls client.end() when its query, or its try block,
\* fails after connect() resolved: testConnectionInternal, of ConfigHandler
\* and of McpConfigHandler, and ListResources call end() as the last
\* statement of the try block only, ReadResource and the database tools
\* of index.ts in a finally block.
EndsOnFailure(kind) == kind \in {"read_resource"} \cup DbTools

\* The statement a handler submits when the one in flight has resolved:
\* describe_table of index.ts goes on to pg_indexes, every other handler
\* has none.
JobNextStatement(j) ==
  IF j.kind = "describe_table" /\ j.q = "COLUMNS" THEN "INDEXES" ELSE ""

\* The process that runs the handler of job j is alive: ConfigHandler is
\* served by the process that exits when the import fails unhandled,
\* index.ts and its McpConfigHandler run in a process of their own.
Serving(j) == j.handler = "ConfigHandler" => ~exited

\* new Client(...) and the call of connect(), by job j in slot s.
JobConnect(s, j) ==
  /\ jobs' = [jobs EXCEPT ![s] = [j EXCEPT !.pc = "connecting", !.conn = nextConn]]
  /\ conns' = [conns EXCEPT ![nextConn] = FreshConn(j.id)]
  /\ nextConn' = nextConn + 1

\* The handler returns or throws without (further) awaits.
JobDone(s, j, outcome) ==
  jobs' = [jobs EXCEPT ![s] = [j EXCEPT !.pc = "done", !.outcome = outcome]]

\* The handler goes on after await this.initializeDjConfigAsync():
\* handleConfigConnection calls the first configSet, handleGetConnectionInfo
\* the first configGet; when the import failed, the first returns the error
\* as content and the second throws it.
AfterImport(j, promise) ==
  IF promise = "fulfilled"
    THEN [j EXCEPT !.pc = IF j.kind = "configure_connection" THEN "set" ELSE "get",
                   !.k = 1]
    ELSE [j EXCEPT !.pc = "done",
                   !.outcome = IF j.kind = "configure_connection" THEN "isError"
                                                                  ELSE "thrown"]

\* A request arrives; the handler runs up to its first await.
JobBegin(s, call) ==
  /\ call.kind \in ConfigTools => ~exited
  /\ jobs[s].pc = "idle"
  /\ budget > 0
  /\ budget' = budget - 1
  /\ nextId' = nextId + 1
  /\ LET j == [IdleJob EXCEPT !.id = nextId, !.kind = call.kind,
                              !.handler = IF call.kind \in ConfigTools
                                            THEN "ConfigHandler" ELSE "index",
                              !.noArgs = call.noArgs, !.args = call.args,
                              !.uri = call.uri,
                              !.before = [config |-> config, store |-> store,
                                          djConfig |->
                                            djConfigInitPromise = "fulfilled"]]
         awaited == IF djConfigInitPromise = "pending"
                      THEN [j EXCEPT !.pc = "import"]
                      ELSE AfterImport(j, djConfigInitPromise)
     IN CASE call.kind = "configure_connection" ->
               IF call.noArgs
                 \* destructuring undefined throws inside the try block;
                 \* the catch returns the error as content
                 THEN /\ JobDone(s, j, "isError")
                      /\ UNCHANGED <<config, conns, nextConn, accepted>>
               ELSE IF ConfigArgsMissing(call.args)
                 THEN /\ JobDone(s, j, "thrown")
                      /\ UNCHANGED <<config, conns, nextConn, accepted>>
               \* the configuration is replaced before the import is
               \* awaited
               ELSE /\ config' = ConfigFromArgs(call.args)
                    /\ accepted' = TRUE
                    /\ jobs' = [jobs EXCEPT ![s] = awaited]
                    /\ UNCHANGED <<conns, nextConn>>
          [] call.kind = "get_connection_info" ->
               /\ jobs' = [jobs EXCEPT ![s] = awaited]
               /\ UNCHANGED <<config, conns, nextConn, accepted>>
          [] call.kind = "test_connection" ->
               \* testConnectionInternal does not await the import: while
               \* djConfig is undefined the first configGet throws a
               \* TypeError inside the try block and the test reports
               \* failure
               /\ IF djConfigInitPromise = "fulfilled"
                    THEN jobs' = [jobs EXCEPT ![s] = [j EXCEPT !.pc = "get", !.k = 1]]
                    ELSE JobDone(s, j, "isError")
               /\ UNCHANGED <<config, conns, nextConn, accepted>>
          [] call.kind = "list_available_clients" ->
               /\ JobDone(s, j, "thrown")
               /\ UNCHANGED <<config, conns, nextConn, accepted>>
          \* index.ts runs only where dj-config-mcp can be imported
          [] call.kind = "list_resources" ->
               /\ store.installed
               /\ IF IsConfigured(configHandler.config)
                    THEN JobConnect(s, j)
                    ELSE JobDone(s, j, "empty") /\ UNCHANGED <<conns, nextConn>>
               /\ UNCHANGED <<config, accepted>>
          [] call.kind = "read_resource" ->
               /\ store.installed
               /\ IF IsConfigured(configHandler.config)
                    THEN JobConnect(s, j)
                    ELSE JobDone(s, j, "thrown") /\ UNCHANGED <<conns, nextConn>>
               /\ UNCHANGED <<config, accepted>>
  /\ UNCHANGED <<calls, sent, table, txlog, cin, cout, catalog, descs, listed,
                 execs, djConfigInitPromise, exited, configHandler, store>>

\* The import of dj-config-mcp settles: djConfig is the module, or the
\* import has failed.  The handlers that await it go on.  When it failed,
\* the promise of the constructor's this.initializeDjConfigAsync() call,
\* which nothing awaits, is rejected unhandled: build/index.js answers an
\* unhandledRejection with process.exit(1); under a host that does not
\* (one that constructs PostgresServer or ConfigHandler itself) the server
\* goes on serving.
InitializeDjConfig ==
  /\ ~exited
  /\ djConfigInitPromise = "pending"
  /\ djConfigInitPromise' = IF store.installed THEN "fulfilled" ELSE "rejected"
  /\ exited' \in IF store.installed THEN {FALSE} ELSE BOOLEAN
  /\ jobs' = [s \in JobSlots |->
                IF jobs[s].pc = "import"
                  THEN AfterImport(jobs[s], djConfigInitPromise')
                  ELSE jobs[s]]
  /\ UNCHANGED <<config, budget, calls, nextId, conns, nextConn, sent, table,
                 txlog, cin, cout, catalog, descs, listed, execs, store,
                 configHandler, accepted>>

\* index.ts: configHandler.initialize() loads what is persisted into the
\* configuration of the McpConfigHandler.
Initialize ==
  /\ store.installed
  /\ ~configHandler.initialized
  /\ configHandler' = [config |-> LoadConfig(configHandler.config, store),
                       initialized |-> TRUE]
  /\ UNCHANGED <<config, budget, calls, nextId, conns, nextConn, sent, table,
                 txlog, cin, cout, catalog, descs, listed, execs, store,
                 djConfigInitPromise, exited, accepted, jobs>>

\* McpConfigHandler.handleConfig's saves: saveNonSecretToConfig for host,
\* port || 5432, database, user and ssl !== undefined ? ssl : true, then
\* saveSecretToEnv('POSTGRES_PASSWORD', password).  The store holds every
\* value as the text loadConfig compares and converts.  found: whether
\* getConfigValue('postgres.password') finds what was saved under
\* 'POSTGRES_PASSWORD', which dj-config-mcp decides.
SaveConfig(st, args, found) ==
  [st EXCEPT !.host = args.host.str,
             !.port = IF args.port.truthy THEN JsToString(args.port) ELSE "5432",
             !.database = args.database.str,
             !.user = args.user.str,
             !.password = IF found THEN args.password.str ELSE @,
             !.ssl = IF HasToString(SslOrDefault(args))
                       THEN JsToString(SslOrDefault(args)) ELSE "null",
             !.sslSet = TRUE]

\* McpConfigHandler.handleConfig throws this for a missing required field.
RequiredConfigParams ==
  McpError("InvalidParams",
           <<"host, database, user, and password are required">>, {})

\* isValidQueryArgs(args)
IsValidQueryArgs(noArgs, args) ==
  /\ ~noArgs
  /\ TypeOf(args.query) = "string"
  /\ (args.params.type = "undefined" \/ IsArray(args.params))

\* isValidTableInfoArgs(args)
IsValidTableInfoArgs(noArgs, args) ==
  /\ ~noArgs
  /\ (args.schema.type = "undefined" \/ TypeOf(args.schema) = "string")
  /\ (args.table.type = "undefined" \/ TypeOf(args.table) = "string")

\* The fields named in shape as the handler reads them from the arguments
\* of call: a field the arguments do not carry reads as undefined.
ArgsOf(call, shape) ==
  [f \in DOMAIN shape |->
     IF ~call.noArgs /\ f \in DOMAIN call.args THEN call.args[f]
                                                ELSE JsUndefined]

\* index.ts's CallTool handler receives a request (configHandler is set and
\* its tools are not hidden).  The configuration tools go to
\* configHandler.handleToolCall.  config: handleConfig checks the required
\* fields, saves the arguments and calls loadConfig, which reads them back
\* into configHandler.config before it is awaited.  test_connection:
\* testConnectionInternal constructs a Client from configHandler.config,
\* configured or not, and calls connect().  config_get and
\* get_supported_clients return what they read.  The database tools are
\* served by the handler itself: it throws when configHandler is not
\* configured, then when the arguments are not valid, and then calls
\* createClient, which constructs a Client and calls connect().  Calls
\* that name clients are not among the calls made.
CallTool(s, call) ==
  /\ store.installed
  /\ jobs[s].pc = "idle"
  /\ budget > 0
  /\ budget' = budget - 1
  /\ nextId' = nextId + 1
  /\ LET args == ArgsOf(call, NoConfigArgs)
         toolArgs == ArgsOf(call, NoArgs)
         j == [IdleJob EXCEPT !.id = nextId, !.kind = call.tool,
                              !.handler = IF call.tool \in DbTools
                                            THEN "index"
                                            ELSE "McpConfigHandler",
                              !.noArgs = call.noArgs,
                              !.args = args,
                              !.toolArgs = toolArgs,
                              !.before = [config |-> configHandler.config,
                                          store |-> store, djConfig |-> TRUE]]
     IN CASE call.tool = "config" ->
               IF call.noArgs
                 \* destructuring undefined throws inside the try block;
                 \* the catch returns the error as content
                 THEN /\ JobDone(s, j, "isError")
                      /\ UNCHANGED <<store, configHandler, conns, nextConn>>
               ELSE IF ConfigArgsMissing(args)
                 THEN /\ JobDone(s, j, "thrown")
                      /\ UNCHANGED <<store, configHandler, conns, nextConn>>
               ELSE /\ \E found \in BOOLEAN :
                         store' = SaveConfig(store, args, found)
                    /\ configHandler' =
                         [configHandler EXCEPT
                            !.config = LoadConfig(@, store')]
                    /\ jobs' = [jobs EXCEPT ![s] = [j EXCEPT !.pc = "reload"]]
                    /\ UNCHANGED <<conns, nextConn>>
          [] call.tool = "test_connection" ->
               /\ JobConnect(s, j)
               /\ UNCHANGED <<store, configHandler>>
          [] call.tool \in {"config_get", "get_supported_clients"} ->
               /\ JobDone(s, j, "ok")
               /\ UNCHANGED <<store, configHandler, conns, nextConn>>
          [] call.tool \in DbTools ->
               /\ IF /\ IsConfigured(configHandler.config)
                     /\ IF call.tool = "execute_query"
                          THEN IsValidQueryArgs(call.noArgs, toolArgs)
                          ELSE IsValidTableInfoArgs(call.noArgs, toolArgs)
                    THEN JobConnect(s, j)
                    ELSE JobDone(s, j, "thrown") /\ UNCHANGED <<conns, nextConn>>
               /\ UNCHANGED <<store, configHandler>>
  /\ UNCHANGED <<config, calls, sent, table, txlog, cin, cout, catalog, descs,
                 listed, execs, djConfigInitPromise, exited, accepted>>

\* await this.loadConfig() resolves in handleConfig: testConnectionInternal
\* constructs a Client from configHandler.config and calls connect().
LoadConfigDone(s) ==
  /\ jobs[s].pc = "reload"
  /\ JobConnect(s, jobs[s])
  /\ UNCHANGED <<config, budget, calls, nextId, sent, table, txlog, cin, cout,
                 catalog, descs, listed, execs, djConfigInitPromise, exited,
                 configHandler, store, accepted>>

\* await djConfig.configSet(key, value) resolves: the k-th of the six.
\* The value of the next is evaluated, which a null ssl makes throw; the
\* connection test follows the last.
ConfigSetDone(s) ==
  /\ Serving(jobs[s])
  /\ jobs[s].pc = "set"
  /\ LET j == jobs[s]
         key == StoreKeys[j.k]
         after == StoreAfterSet(store, j.args)
     IN /\ store' = [store EXCEPT
                       ![key] = after[key],
                       !.sslSet = IF key = "ssl" THEN after.sslSet ELSE @]
        /\ jobs' = [jobs EXCEPT ![s] =
                      IF j.k = Len(StoreKeys) THEN [j EXCEPT !.pc = "get", !.k = 1]
                      ELSE IF ConfigSetThrows(j.args, StoreKeys[j.k + 1])
                        THEN [j EXCEPT !.pc = "done", !.outcome = "isError"]
                      ELSE [j EXCEPT !.k = j.k + 1]]
  /\ UNCHANGED <<config, budget, calls, nextId, conns, nextConn, sent, table,
                 txlog, cin, cout, catalog, descs, listed, execs,
                 djConfigInitPromise, exited, configHandler, accepted>>

\* await djConfig.configGet(key) resolves: the k-th of the six.  After the
\* last, handleGetConnectionInfo returns what it read (it calls
\* this.config.ssl.toString() when no ssl text is persisted); in
\* testConnectionInternal the values that were read replace the ones in
\* memory, and a Client is constructed from the result and connect()
\* called.
ConfigGetDone(s) ==
  /\ Serving(jobs[s])
  /\ jobs[s].pc = "get"
  /\ LET j == jobs[s]
         key == IF j.kind = "get_connection_info" THEN InfoKeys[j.k]
                                                  ELSE StoreKeys[j.k]
         loaded == [j.loaded EXCEPT ![key] = store[key],
                                    !.sslSet = @ \/ (key = "ssl" /\ store.sslSet)]
     IN IF j.k < Len(StoreKeys)
          THEN /\ jobs' = [jobs EXCEPT ![s] =
                             [j EXCEPT !.k = j.k + 1, !.loaded = loaded]]
               /\ UNCHANGED <<config, conns, nextConn>>
        ELSE IF j.kind = "get_connection_info"
          THEN /\ JobDone(s, [j EXCEPT !.loaded = loaded],
                          IF loaded.ssl = "" /\ ~HasToString(config.ssl)
                            THEN "typeError" ELSE "ok")
               /\ UNCHANGED <<config, conns, nextConn>>
          ELSE /\ config' = LoadFromStore(config, loaded)
               /\ JobConnect(s, [j EXCEPT !.loaded = loaded])
  /\ UNCHANGED <<budget, calls, nextId, sent, table, txlog, cin, cout, catalog,
                 descs, listed, execs, djConfigInitPromise, exited, configHandler, store,
                 accepted>>

\* What the caller gets when connect() or the query fails: configure_connection
\* and config return their text with a warning, test_connection a result
\* flagged isError, as do the database tools of index.ts; ListResources
\* an empty list; ReadResource throws.
FailureOutcome(kind) ==
  CASE kind \in {"configure_connection", "config"} -> "warning"
    [] kind \in {"test_connection"} \cup DbTools -> "isError"
    [] kind = "list_resources" -> "empty"
    [] OTHER -> "thrown"

\* What handleToolCall throws for a finished configuration tool call.
JobThrown(j) ==
  CASE j.outcome = "thrown" /\ j.kind = "configure_connection" -> InvalidConfigParams
    [] j.outcome = "thrown" /\ j.kind = "config" -> RequiredConfigParams
    [] j.outcome = "thrown" /\ j.kind \in DbTools ->
         IF ~IsConfigured(j.before.config)
           THEN McpError("InvalidRequest", <<"Database not configured.">>, {})
           ELSE McpError("InvalidParams", <<"Invalid", "arguments">>, {})
    [] j.outcome = "thrown" /\ j.kind = "get_connection_info" ->
         RawError(TRUE, <<"dj-config-mcp is required but not installed">>)
    [] j.outcome = "thrown" /\ j.kind = "list_available_clients" ->
         McpError("MethodNotFound", <<"Unknown tool">>, {})
    [] j.outcome = "typeError" ->
         RawError(TRUE, <<"Cannot read properties of null (reading 'toString')">>)
    [] OTHER -> NoError

\* Whether the result it returns is flagged isError.
JobIsError(j) == j.outcome = "isError"

\* How the connection test of a finished configuration tool call went, if
\* one was made.
Tested(j) ==
  CASE j.kind \notin {"configure_connection", "config", "test_connection"} ->
         "none"
    [] j.outcome = "ok" -> "passed"
    [] j.outcome = "warning" -> "failed"
    [] j.outcome = "isError" /\ j.kind = "test_connection" -> "failed"
    [] OTHER -> "none"

\* The try block fails after connect() resolved: the handler calls end()
\* or leaves the Client as it is.
JobFailConnected(s, j, cs) ==
  IF EndsOnFailure(j.kind)
    THEN /\ conns' = [cs EXCEPT ![j.conn].ends = @ + 1]
         /\ jobs' = [jobs EXCEPT ![s] =
                       [j EXCEPT !.pc = "ending", !.outcome = FailureOutcome(j.kind)]]
    ELSE /\ conns' = cs
         /\ JobDone(s, j, FailureOutcome(j.kind))

\* connect() resolves: the handler submits its statement.
JobConnectOk(s) ==
  /\ Serving(jobs[s])
  /\ jobs[s].pc = "connecting"
  /\ LET j == jobs[s]
         cs == [conns EXCEPT ![j.conn].state = "connected"]
     IN IF JobStatement(j) = ""
          THEN JobFailConnected(s, j, cs)
          ELSE /\ conns' = cs
               /\ jobs' = [jobs EXCEPT ![s] =
                             [j EXCEPT !.pc = "query", !.q = JobStatement(j)]]
  /\ UNCHANGED <<config, budget, calls, nextId, nextConn, sent, table, txlog,
                 cin, cout, catalog, descs, listed, execs,
                 djConfigInitPromise, exited, configHandler, store, accepted>>

\* connect() rejects: no handler calls end() on a Client that never
\* connected.
JobConnectFail(s) ==
  /\ Serving(jobs[s])
  /\ jobs[s].pc = "connecting"
  /\ LET j == jobs[s]
     IN /\ conns' = [conns EXCEPT ![j.conn].state = "failed"]
        /\ JobDone(s, j, FailureOutcome(j.kind))
  /\ UNCHANGED <<config, budget, calls, nextId, nextConn, sent, table, txlog,
                 cin, cout, catalog, descs, listed, execs,
                 djConfigInitPromise, exited, configHandler, store, accepted>>

\* The query resolves: the handler submits its next statement, or calls
\* end().
JobQueryOk(s) ==
  /\ Serving(jobs[s])
  /\ jobs[s].pc = "query"
  /\ LET j == jobs[s]
     IN IF JobNextStatement(j) # ""
          THEN /\ jobs' = [jobs EXCEPT ![s].q = JobNextStatement(j)]
               /\ UNCHANGED conns
          ELSE /\ conns' = [conns EXCEPT ![j.conn].ends = @ + 1]
               /\ jobs' = [jobs EXCEPT ![s] =
                             [j EXCEPT !.pc = "ending", !.outcome = "ok"]]
  /\ UNCHANGED <<config, budget, calls, nextId, nextConn, sent, table, txlog,
                 cin, cout, catalog, descs, listed, execs,
                 djConfigInitPromise, exited, configHandler, store, accepted>>

\* The query rejects.
JobQueryFail(s) ==
  /\ Serving(jobs[s])
  /\ jobs[s].pc = "query"
  /\ JobFailConnected(s, jobs[s], conns)
  /\ UNCHANGED <<config, budget, calls, nextId, nextConn, sent, table, txlog,
                 cin, cout, catalog, descs, listed, execs,
                 djConfigInitPromise, exited, configHandler, store, accepted>>

\* end() resolves; the handler returns or rethrows.
JobEndDone(s) ==
  /\ Serving(jobs[s])
  /\ jobs[s].pc = "ending"
  /\ conns' = [conns EXCEPT ![jobs[s].conn].state = "ended"]
  /\ jobs' = [jobs EXCEPT ![s].pc = "done"]
  /\ UNCHANGED <<config, budget, calls, nextId, nextConn, sent, table, txlog,
                 cin, cout, catalog, descs, listed, execs,
                 djConfigInitPromise, exited, configHandler, store, accepted>>

\* The reply reaches the caller, who is done with the request.
JobReturn(s) ==
  /\ jobs[s].pc = "done"
  /\ jobs' = [jobs EXCEPT ![s] = IdleJob]
  /\ UNCHANGED <<config, budget, calls, nextId, conns, nextConn, sent, table,
                 txlog, cin, cout, catalog, descs, listed, execs,
                 djConfigInitPromise, exited, configHandler, store, accepted>>

\* Requests: configuration tool calls and resource requests.
JobCall(kind, noArgs, args, uri) ==
  [kind |-> kind, noArgs |-> noArgs, args |-> args, uri |-> uri]

\* A CallTool request arrives: the configuration tools go to
\* ConfigHandler.handleToolCall, every other name to the switch.
Invoke(s, call) ==
  IF call.tool \in ConfigTools
    THEN /\ s \in JobSlots
         /\ JobBegin(s, JobCall(call.tool, call.noArgs,
                                IF call.noArgs THEN NoConfigArgs ELSE call.args,
                                ""))
    ELSE InvokeDatabaseTool(s, call)

\* Two complete configurations that differ in host and password.
ConfigArgsA ==
  [NoConfigArgs EXCEPT !.host = JsStr("db.example"), !.database = JsStr("app"),
                       !.user = JsStr("admin"), !.password = JsStr("secret")]

ConfigArgsB ==
  [NoConfigArgs EXCEPT !.host = JsStr("replica.example"), !.database = JsStr("app"),
                       !.user = JsStr("admin"), !.password = JsStr("hunter2")]

RaceCalls ==
  {Call("configure_connection", a) : a \in {ConfigArgsA, ConfigArgsB}}

\* The tools that take no arguments, called with an empty object.
BareConfigCalls ==
  {Call(tool, NoConfigArgs) :
     tool \in {"get_connection_info", "test_connection", "list_available_clients"}}

StepCalls ==
  {Call("configure_connection", ConfigArgsA),
   Call("configure_connection", [ConfigArgsA EXCEPT !.password = JsUndefined]),
   BareCall("configure_connection")}
  \cup BareConfigCalls

\* TEST_DB_CONFIG, the arguments of the integration test's
\* configure_connection call.
TestDbConfig ==
  [host |-> JsStr("localhost"), port |-> JsPort("5432"),
   database |-> JsStr("test_db"), user |-> JsStr("postgres"),
   password |-> JsStr("postgres"), ssl |-> JsBool(FALSE)]

\* The tool calls index.ts receives: config with a complete
\* configuration, with the one of the integration test, without a password
\* and without arguments, the configuration tools that take none, and the
\* database tools with valid arguments, with a params that is no array
\* and without arguments.
IndexCalls ==
  {Call("config", ConfigArgsA),
   Call("config", TestDbConfig),
   Call("config", [ConfigArgsA EXCEPT !.password = JsUndefined]),
   BareCall("config")}
  \cup {Call(tool, NoConfigArgs) :
          tool \in {"config_get", "get_supported_clients", "test_connection"}}
  \cup {Call("execute_query", ExecArgs(JsStr("SELECT"), JsUndefined)),
        Call("execute_query", ExecArgs(JsStr("SELECT"), JsNum(FALSE))),
        Call("describe_table", TableArgs(JsStr("test_users"), JsUndefined)),
        Call("list_tables", NoArgs),
        BareCall("list_tables")}

ResourceRequests ==
  {JobCall("list_resources", FALSE, NoConfigArgs, "")}
  \cup {JobCall("read_resource", FALSE, NoConfigArgs, uri) :
          uri \in {"overview", "schema", "unknown"}}

\* The configure_connection calls tried: none of the arguments, every
\* combination of absent, empty and given values of the required fields,
\* and complete calls that differ in password, port and ssl (absent, a
\* boolean, a text, null).
ConfigCalls ==
  {BareCall("configure_connection")}
  \cup {Call("configure_connection",
              [NoConfigArgs EXCEPT !.host = h, !.database = d, !.user = u,
                                   !.password = w]) :
          h \in {JsUndefined, JsStr(""), JsStr("db.example")},
          d \in {JsUndefined, JsStr(""), JsStr("app")},
          u \in {JsUndefined, JsStr(""), JsStr("admin")},
          w \in {JsUndefined, JsStr(""), JsStr("secret")}}
  \cup {Call("configure_connection",
              [host |-> JsStr("db.example"), port |-> p,
               database |-> JsStr("app"), user |-> JsStr("admin"),
               password |-> w, ssl |-> s]) :
          p \in {JsUndefined, JsPort("6543")},
          w \in {JsStr("secret"), JsStr("wrong")},
          s \in {JsUndefined, JsBool(FALSE), JsStr("false"), JsNull}}

\* What dj-config-mcp holds when the server starts: not loadable, nothing,
\* or the configuration an earlier run persisted.
InitialStores ==
  {NoStore, [NoStore EXCEPT !.installed = FALSE],
   [NoStore EXCEPT !.host = "db.example", !.port = "5432", !.database = "app",
                   !.user = "admin", !.password = "secret", !.ssl = "true",
                   !.sslSet = TRUE]}

(***************************************************************************)
(* Specifications.                                                         *)
(***************************************************************************)
InitServer ==
  /\ config \in {GetDefaultConfig(env) : env \in Environments}
  /\ calls = [s \in Slots |-> IdleCall]
  /\ nextId = 1
  /\ conns = [c \in ConnIds |-> NoConn]
  /\ nextConn = 1
  /\ sent = {}
  /\ table = 0
  /\ txlog = <<>>

\* The Client of request 1 after connect(), its query and end().
EndedConn ==
  [owner |-> 1, state |-> "ended", connects |-> 1, ends |-> 1,
   inTx |-> FALSE, pending |-> 0]

\* The server of the integration test after its beforeAll: request 1,
\* configure_connection(TEST_DB_CONFIG), has returned.  It awaited the
\* import; with dj-config-mcp it saved the six values, loaded them again
\* and tested the connection on a Client of its own; without, it replaced
\* the configuration and returned the import error.
InitConfigured ==
  /\ store \in {StoreAfterSet(NoStore, TestDbConfig),
                [NoStore EXCEPT !.installed = FALSE]}
  /\ djConfigInitPromise = IF store.installed THEN "fulfilled" ELSE "rejected"
  /\ exited = FALSE
  /\ configHandler = NewMcpConfigHandler
  /\ config = LoadFromStore(ConfigFromArgs(TestDbConfig), store)
  /\ accepted = TRUE
  /\ calls = [s \in Slots |-> IdleCall]
  /\ jobs = [s \in JobSlots |-> IdleJob]
  /\ nextId = 2
  /\ conns = [c \in ConnIds |-> IF store.installed /\ c = 1 THEN EndedConn
                                                            ELSE NoConn]
  /\ nextConn = IF store.installed THEN 2 ELSE 1
  /\ sent = {}
  /\ table = 0
  /\ txlog = <<>>

\* Nothing described, listed, executed or persisted; the import of
\* dj-config-mcp has been started.
InitAux ==
  /\ catalog = TestCatalog
  /\ descs = <<>>
  /\ listed = <<>>
  /\ execs = [s \in ExecSlots |-> IdleExec]
  /\ store = NoStore
  /\ djConfigInitPromise = "pending"
  /\ exited = FALSE
  /\ configHandler = NewMcpConfigHandler
  /\ accepted = FALSE
  /\ jobs = [s \in JobSlots |-> IdleJob]

\* Concurrent tool calls, by a caller that overlaps them freely.
Init ==
  /\ InitServer
  /\ InitAux
  /\ budget = MaxCalls
  /\ cin = NoError
  /\ cout = NoError

Next ==
  \E s \in Slots :
    \/ \E call \in Calls : Invoke(s, call)
    \/ ConnectOk(s)
    \/ \E f \in {x \in ConnectFailures : x.cause = "refused"} : ConnectFail(s, f)
    \/ QueryOk(s)
    \/ \E f \in {x \in QueryFailures : x.cause = "permission"} : QueryFail(s, f)
    \/ EndDone(s)
    \/ Respond(s)

Spec == Init /\ [][Next]_vars

\* Tool calls made one after the other, over every shape of arguments and
\* every way the engine can fail.
NextArgs ==
  \/ \E call \in AllCalls : Invoke(1, call)
  \/ ConnectOk(1)
  \/ \E f \in ConnectFailures : ConnectFail(1, f)
  \/ QueryOk(1)
  \/ \E f \in QueryFailures : QueryFail(1, f)
  \/ EndDone(1)
  \/ Respond(1)

SpecArgs == Init /\ [][NextArgs]_vars

\* The same calls, with a holder of the descriptor that writes to it.
NextDescriptor ==
  \/ NextArgs
  \/ \E password \in {"", "changed"} : WriteDescriptor(1, password)

SpecDescriptor == Init /\ [][NextDescriptor]_vars

\* The transaction scenario of the integration test: after the beforeAll,
\* execute_query calls made one after the other, each awaited before the
\* next, against an engine that answers every statement.
InitTx ==
  /\ InitConfigured
  /\ catalog = TestCatalog
  /\ descs = <<>>
  /\ listed = <<>>
  /\ execs = [s \in ExecSlots |-> IdleExec]
  /\ budget = MaxTxCalls
  /\ cin = NoError
  /\ cout = NoError

NextTx ==
  \/ \E call \in TxCalls : Invoke(1, call)
  \/ ConnectOk(1)
  \/ QueryOk(1)
  \/ EndDone(1)
  \/ Observe(1)

SpecTx == InitTx /\ [][NextTx]_vars

\* executeQuery's catch block on every rejection.
InitClassify ==
  /\ InitServer
  /\ InitAux
  /\ budget = 0
  /\ cin \in {RawError(e, m) : e \in BOOLEAN, m \in ClassifierMessages}
  /\ cout = NoError

SpecClassify == InitClassify /\ [][Classify]_vars

\* The schema inspector on the server the integration test configured:
\* describe_table and list_tables calls made one after the other.
InitInspect ==
  /\ InitConfigured
  /\ cin = NoError
  /\ cout = NoError
  /\ catalog \in Catalogs
  /\ descs = <<>>
  /\ listed = <<>>
  /\ execs = [s \in ExecSlots |-> IdleExec]

InitDescribe == InitInspect /\ budget = MaxDescribes

NextDescribe ==
  \/ \E args \in DescribeArgs : Invoke(1, Call("describe_table", args))
  \/ ConnectOk(1)
  \/ QueryOk(1)
  \/ \E t \in UserTables : DropTable(1, t)
  \/ EndDone(1)
  \/ Observe(1)

SpecDescribe == InitDescribe /\ [][NextDescribe]_vars

InitList == InitInspect /\ budget = MaxLists

NextList ==
  \/ \E args \in ListArgs : Invoke(1, Call("list_tables", args))
  \/ ConnectOk(1)
  \/ QueryOk(1)
  \/ EndDone(1)
  \/ Observe(1)

SpecList == InitList /\ [][NextList]_vars

\* executeQuery's field mapping on every result shape: one call, whose
\* query the client answers with a result carrying the field descriptors.
NextTypes ==
  \/ ExecuteQueryBegin(1, StatementText(1), 0)
  \/ \E raw \in RawFields :
       ExecuteQuerySettle(1, [raw |-> [rowCount |-> 0, command |-> "SELECT",
                                       hasRowCount |-> TRUE, fields |-> raw],
                              ok |-> TRUE, error |-> NoError],
                          0)

InitTypes ==
  /\ InitConfigured
  /\ catalog = TestCatalog
  /\ descs = <<>>
  /\ listed = <<>>
  /\ execs = [s \in ExecSlots |-> IdleExec]
  /\ budget = 0
  /\ cin = NoError
  /\ cout = NoError

SpecTypes == InitTypes /\ [][NextTypes]_vars

\* executeQuery on every statement length, every answer of the client and
\* every pair of clock readings, and a second call that overlaps it as the
\* caller and the client please.
NextExec ==
  \/ \E query \in QueryTexts, startTime \in Clock :
       ExecuteQueryBegin(1, query, startTime)
  \/ \E answer \in Answers, now \in Clock : ExecuteQuerySettle(1, answer, now)
  \/ \E startTime \in Clock : ExecuteQueryBegin(2, StatementText(1), startTime)
  \/ \E answer \in OverlapAnswers, now \in Clock :
       ExecuteQuerySettle(2, answer, now)

SpecExec == InitTypes /\ [][NextExec]_vars

\* The configuration tools, called one after the other.
InitConfig ==
  /\ InitServer
  /\ budget = MaxConfigCalls
  /\ cin = NoError
  /\ cout = NoError
  /\ catalog = SystemTables
  /\ descs = <<>>
  /\ listed = <<>>
  /\ execs = [s \in ExecSlots |-> IdleExec]
  /\ store \in InitialStores
  /\ djConfigInitPromise = "pending"
  /\ exited = FALSE
  /\ configHandler = NewMcpConfigHandler
  /\ accepted = FALSE
  /\ jobs = [s \in JobSlots |-> IdleJob]

NextConfig ==
  \/ \E call \in ConfigCalls \cup BareConfigCalls : Invoke(1, call)
  \/ InitializeDjConfig
  \/ ConfigSetDone(1)
  \/ ConfigGetDone(1)
  \/ JobConnectOk(1)
  \/ JobConnectFail(1)
  \/ JobQueryOk(1)
  \/ JobQueryFail(1)
  \/ JobEndDone(1)
  \/ JobReturn(1)

SpecConfig == InitConfig /\ [][NextConfig]_vars

\* The configuration tools of ConfigHandler, the tools index.ts serves
\* (those it hands to its McpConfigHandler and its own database tools) and
\* its resource handlers, one request after the other, followed await by
\* await.
NextSteps ==
  \/ \E call \in StepCalls : Invoke(1, call)
  \/ \E request \in ResourceRequests : JobBegin(1, request)
  \/ \E call \in IndexCalls : CallTool(1, call)
  \/ LoadConfigDone(1)
  \/ InitializeDjConfig
  \/ Initialize
  \/ ConfigSetDone(1)
  \/ ConfigGetDone(1)
  \/ JobConnectOk(1)
  \/ JobConnectFail(1)
  \/ JobQueryOk(1)
  \/ JobQueryFail(1)
  \/ JobEndDone(1)
  \/ JobReturn(1)

SpecSteps == InitConfig /\ [][NextSteps]_vars

\* Two configure_connection calls that overlap as the caller pleases.
InitRace ==
  /\ InitServer
  /\ InitAux
  /\ budget = Cardinality(JobSlots)
  /\ cin = NoError
  /\ cout = NoError

NextRace ==
  \E s \in JobSlots :
    \/ \E call \in RaceCalls : Invoke(s, call)
    \/ InitializeDjConfig
    \/ ConfigSetDone(s)
    \/ ConfigGetDone(s)
    \/ JobConnectOk(s)
    \/ JobConnectFail(s)
    \/ JobQueryOk(s)
    \/ JobQueryFail(s)
    \/ JobEndDone(s)

SpecRace == InitRace /\ [][NextRace]_vars

(***************************************************************************)
(* Properties.                                                             *)
(***************************************************************************)
\* The calls being served or just answered.
Live == {s \in Slots : calls[s].pc # "idle"}

\* C1: once a database tool handler has constructed its Client, end() is
\* called on it exactly once before the call is answered, on every path
\* (connect failure, query failure, TABLE_NOT_FOUND, success), and no
\* Client is left open by a call that has been answered.
C1_EndCalledOnceOnEveryPath ==
  /\ \A s \in Live :
       LET c == calls[s] IN
       c.conn # 0 =>
         /\ c.pc \in {"connecting", "query"} => conns[c.conn].ends = 0
         /\ c.pc = "ending" => conns[c.conn].ends = 1
         /\ c.pc = "done" =>
              conns[c.conn].ends = 1 /\ conns[c.conn].state = "ended"
  /\ \A k \in ConnIds :
       (conns[k].state # "none" /\ \A s \in Live : calls[s].conn # k) =>
         conns[k].ends = 1 /\ conns[k].state = "ended"

\* C1 happens: a describe_table call that failed with TABLE_NOT_FOUND has
\* been answered, and its Client has been ended.
C1_Witness ==
  \E s \in Live :
    /\ calls[s].pc = "done"
    /\ calls[s].tool = "describe_table"
    /\ calls[s].thrown.code = "TABLE_NOT_FOUND"
    /\ calls[s].conn # 0
    /\ conns[calls[s].conn].ends = 1

\* Some required field of the configuration cfg is empty.
Unconfigured(cfg) ==
  cfg.host = "" \/ cfg.database = "" \/ cfg.user = "" \/ cfg.password = ""

C3_RollbackAcrossCalls ==
  (/\ Len(txlog) = 4
   /\ txlog[1].q = "BEGIN"
   /\ txlog[2].q = "INSERT"
   /\ txlog[3].q = "ROLLBACK"
   /\ txlog[4].q = "SELECT") => txlog[4].rowCount = 0

\* m holds the words p next to each other, in order.
Mentions(m, p) ==
  \E a \in 0..Len(m) :
    /\ a + Len(p) <= Len(m)
    /\ \A j \in 1..Len(p) : m[a + j] = p[j]

\* C4: the kind executeQuery gives an engine message m is decided by the
\* first test that matches, in the order 'permission denied' (PERMISSION_
\* DENIED), 'does not exist' (TABLE_NOT_FOUND, message m), 'syntax error'
\* (QUERY_ERROR, a syntax-error message holding m), otherwise QUERY_ERROR
\* with a message holding m.
C4_ClassificationOrder ==
  cout # NoError =>
    LET m == cin.message
        perm == Mentions(m, <<"permission", "denied">>)
        gone == Mentions(m, <<"does", "not", "exist">>)
        synt == Mentions(m, <<"syntax", "error">>)
    IN /\ perm => cout.code = "PERMISSION_DENIED"
       /\ (~perm /\ gone) => (cout.code = "TABLE_NOT_FOUND" /\ cout.message = m)
       /\ (~perm /\ ~gone /\ synt) =>
            /\ cout.code = "QUERY_ERROR"
            /\ cout.message = <<"SQL", "syntax", "error:">> \o m
       /\ (~perm /\ ~gone /\ ~synt) =>
            /\ cout.code = "QUERY_ERROR"
            /\ cout.message = <<"Query", "execution", "failed:">> \o m

\* C4 happens: a message with both the permission and the existence
\* phrasing was classified.
C4_Witness ==
  /\ cout # NoError
  /\ Mentions(cin.message, <<"permission", "denied">>)
  /\ Mentions(cin.message, <<"does", "not", "exist">>)
  /\ cout.code = "PERMISSION_DENIED"

\* C5: whenever client.query fails inside executeQuery, executeQuery throws
\* one ManagedError of kind PERMISSION_DENIED, TABLE_NOT_FOUND or
\* QUERY_ERROR and returns no QueryResult; nothing thrown out of
\* executeQuery is INVALID_PARAMS or NO_CONNECTION.
C5_QueryFailureIsClassified ==
  \A s \in Live :
    LET c == calls[s] IN
    c.tool = "execute_query" =>
      /\ c.failedAt = "query" =>
           /\ c.thrown.cls = "ManagedError"
           /\ c.thrown.code \in {"PERMISSION_DENIED", "TABLE_NOT_FOUND", "QUERY_ERROR"}
           /\ c.result = NoResult
      /\ (\E e \in sent : e.by = c.id) =>
           c.thrown.code \notin {"INVALID_PARAMS", "NO_CONNECTION"}

\* C5 happens: an execute_query call whose statement timed out in the
\* engine has been answered.
C5_Witness ==
  \E s \in Live :
    /\ calls[s].tool = "execute_query"
    /\ calls[s].pc = "done"
    /\ calls[s].failedAt = "query"
    /\ calls[s].cause = "timeout"
    /\ calls[s].thrown.code = "QUERY_ERROR"

\* C6 as stated: an engine failure during a query issued by listTables or
\* describeTable reaches the caller of the executor as a ManagedError
\* carrying one of the nine taxonomy kinds, not as the engine's raw error.
C6_SchemaFailuresClassified ==
  \A s \in Live :
    LET c == calls[s] IN
    (c.tool \in {"list_tables", "describe_table"} /\ c.failedAt = "query") =>
      /\ c.thrown.cls = "ManagedError"
      /\ c.thrown.code \in ErrorCodes

\* C7 as stated: a database tool call whose connect() or query() ran into
\* its timeout fails with a ManagedError of kind TIMEOUT.
C7_TimeoutKind ==
  \A s \in Live :
    LET c == calls[s] IN
    c.cause = "timeout" =>
      /\ c.thrown.cls = "ManagedError"
      /\ c.thrown.code = "TIMEOUT"

\* C8 as stated: every ManagedError raised during a tool call reaches the
\* remote caller as a reply that carries the error's taxonomy code and its
\* message.
C8_ReplyCarriesCode ==
  \A s \in Live :
    LET c == calls[s] IN
    (c.pc = "done" /\ c.thrown.cls = "ManagedError") =>
      /\ c.resp.kind = "error"
      /\ c.resp.code = c.thrown.code
      /\ c.resp.message = c.thrown.message

\* params is given, and is not an array or holds an element that is not a
\* string, number, boolean or null.
MalformedParams(p) ==
  \/ p.type \notin {"undefined", "null", "array"}
  \/ /\ p.type = "array"
     /\ \E k \in 1..Len(p.elems) :
          p.elems[k] \notin {"string", "number", "boolean", "null"}

\* C9 as stated: an execute_query call whose params is supplied and is not
\* an array, or has an element that is not a string, number, boolean or
\* null, fails with INVALID_PARAMS and submits no statement.  (A params of
\* null is counted as not supplied.)
C9_MalformedParamsRejected ==
  \A s \in Live :
    LET c == calls[s] IN
    (c.tool = "execute_query" /\ ~c.noArgs /\ MalformedParams(c.args.params)) =>
      /\ c.pc = "done"
      /\ c.thrown.cls = "ManagedError"
      /\ c.thrown.code = "INVALID_PARAMS"
      /\ c.conn = 0
      /\ \A e \in sent : e.by # c.id

\* C10: under any interleaving of tool calls, each call that needs the
\* database constructs a Client of its own; its statements go out on that
\* Client only, and only after its connect() resolved and before its end()
\* was called; no Client serves two calls.
C10_OwnConnectionOnly ==
  /\ \A e \in sent :
       /\ e.state = "connected"
       /\ conns[e.conn].owner = e.by
       /\ conns[e.conn].ends = 0 \/ \A s \in Live :
            calls[s].id = e.by => calls[s].pc \in {"ending", "done"}
       /\ \E s \in Live : calls[s].id = e.by /\ calls[s].conn = e.conn
  /\ \A s \in Live :
       LET c == calls[s] IN
       /\ c.conn # 0 => conns[c.conn].owner = c.id
       /\ c.pc = "connecting" => \A e \in sent : e.by # c.id
       /\ c.pc = "query" =>
            /\ conns[c.conn].state = "connected"
            /\ \E e \in sent : e.by = c.id /\ e.n = c.qn
  /\ \A s, t \in Live :
       (s # t /\ calls[s].conn # 0) => calls[s].conn # calls[t].conn
  /\ \A k \in ConnIds :
       conns[k].state # "none" =>
         /\ conns[k].connects = 1
         /\ conns[k].owner < nextId

\* C10 happens: two calls are waiting for the engine at the same time, each
\* on a Client of its own.
C10_Witness ==
  \E s, t \in Live :
    /\ s # t
    /\ calls[s].pc = "query"
    /\ calls[t].pc = "query"
    /\ calls[s].tool = "describe_table"
    /\ calls[s].qn = 3
    /\ calls[s].conn # calls[t].conn


\* The schema a describe_table call works on: the one it was given, or
\* public when it was given none.
DescribedSchema(d) ==
  IF d.schemaArg.type = "string" /\ d.schemaArg.str # ""
    THEN d.schemaArg.str ELSE "public"

\* C11: describeTable fails with TABLE_NOT_FOUND exactly when the column
\* query returned no row, and its message then names the schema (public
\* when none was given) and the table; when a column row came back it
\* does not fail and returns a TableDescription with its columns.
C11_NotFoundIffNoColumns ==
  \A i \in DOMAIN descs :
    LET d == descs[i] IN
    /\ (d.thrown.cls = "ManagedError" /\ d.thrown.code = "TABLE_NOT_FOUND")
          <=> Len(d.colRows) = 0
    /\ Len(d.colRows) = 0 =>
          /\ d.thrown.message = <<"Table", DescribedSchema(d), d.table, "not found">>
          /\ d.value = NoDescription
    /\ Len(d.colRows) > 0 =>
          /\ d.thrown = NoError
          /\ d.value # NoDescription
          /\ d.value.schema = DescribedSchema(d)
          /\ d.value.table = d.table
          /\ d.value.columns # <<>>
    /\ (/\ ~d.changed
        /\ \A t \in d.catalog : ~(t.schema = DescribedSchema(d) /\ t.name = d.table))
          => d.thrown.code = "TABLE_NOT_FOUND"

\* C11 happens: a table that exists in public was asked for in schema
\* audit, where it does not, after a describe that succeeded.
C11_Witness ==
  \E i, j \in DOMAIN descs :
    /\ descs[i].thrown = NoError
    /\ descs[j].table = "users"
    /\ descs[j].schemaArg = JsStr("audit")
    /\ UsersTable \in descs[j].catalog
    /\ descs[j].thrown.code = "TABLE_NOT_FOUND"

\* C12: describeTable returns one ColumnInfo per row of the column query,
\* in the order of the rows (which is the table's column order), copying
\* the row, and flags a column is_primary_key exactly when its name is
\* among the names the primary-key query returned.
C12_ColumnsAndKeyFlags ==
  \A i \in DOMAIN descs :
    LET d == descs[i] IN
    d.thrown = NoError =>
      /\ Len(d.value.columns) = Len(d.colRows)
      /\ \A t \in d.catalog :
           (t.schema = DescribedSchema(d) /\ t.name = d.table) =>
             [k \in DOMAIN d.value.columns |-> d.value.columns[k].column_name]
               = [k \in DOMAIN t.columns |-> t.columns[k].column_name]
      /\ \A k \in DOMAIN d.value.columns :
           LET c == d.value.columns[k] IN
           /\ c.column_name = d.colRows[k].column_name
           /\ c.data_type = d.colRows[k].data_type
           /\ c.is_nullable = d.colRows[k].is_nullable
           /\ c.is_primary_key
                <=> \E r \in DOMAIN d.pkRows : d.pkRows[r].column_name = c.column_name

\* C12 happens: a table with a two-column key and a column outside the
\* key was described, the engine having returned the key columns in the
\* reverse of the key order.
C12_Witness ==
  \E i \in DOMAIN descs :
    /\ descs[i].thrown = NoError
    /\ descs[i].table = "pairs"
    /\ Len(descs[i].pkRows) = 2
    /\ descs[i].pkRows[1].column_name = "b"
    /\ Len(descs[i].value.columns) = 3
    /\ descs[i].value.columns[2].is_primary_key
    /\ ~descs[i].value.columns[3].is_primary_key

\* C13: two successive describeTable calls for the same schema and table
\* (the catalog does not change) return the same column sequence and the
\* same index sequence, whatever order the engine returns the rows of the
\* index and primary-key queries in.
C13_DescribeIdempotent ==
  \A i \in DOMAIN descs :
    (/\ i + 1 \in DOMAIN descs
     /\ descs[i].table = descs[i + 1].table
     /\ DescribedSchema(descs[i]) = DescribedSchema(descs[i + 1])
     /\ descs[i].catalog = descs[i + 1].catalog
     /\ ~descs[i].changed /\ ~descs[i + 1].changed
     /\ descs[i].thrown = NoError)
    => /\ descs[i + 1].thrown = NoError
       /\ descs[i + 1].value.columns = descs[i].value.columns
       /\ descs[i + 1].value.indexes = descs[i].value.indexes

\* The column list of an index definition: the text between its
\* parentheses.
ColumnListOf(def) ==
  SubSeq(def, (CHOOSE k \in DOMAIN def : def[k] = "(") + 1, Len(def) - 1)

\* C20: an index is flagged is_primary exactly when the table has a
\* primary key and the column list of the index definition contains the
\* key's column names, in key order, joined by ', '; with no primary key
\* no index is flagged.
C20_PrimaryIndexFlag ==
  \A i \in DOMAIN descs :
    LET d == descs[i] IN
    (d.thrown = NoError /\ ~d.changed) =>
      \A t \in d.catalog :
        (t.schema = DescribedSchema(d) /\ t.name = d.table) =>
          \A k \in DOMAIN d.value.indexes :
            d.value.indexes[k].is_primary
              <=> /\ t.pk # <<>>
                  /\ Includes(ColumnListOf(d.value.indexes[k].index_definition),
                              Join(t.pk, PkSeparator))

ReservedSchemas == {"information_schema", "pg_catalog"}

\* C14: whatever schema argument listTables is given (none, an ordinary
\* schema, a reserved one), no TableSummary it returns has schema_name
\* information_schema or pg_catalog.
C14_NoSystemSchemas ==
  \A i \in DOMAIN listed :
    \A k \in DOMAIN listed[i].tables :
      listed[i].tables[k].schema_name \notin ReservedSchemas

\* C14 happens: list_tables was called without a schema and returned
\* tables, and with schema pg_catalog (which holds a table) and returned
\* none.
C14_Witness ==
  \E i, j \in DOMAIN listed :
    /\ listed[i].schemaArg = JsUndefined
    /\ listed[i].tables # <<>>
    /\ listed[j].schemaArg = JsStr("pg_catalog")
    /\ listed[j].tables = <<>>
    /\ \E t \in catalog : t.schema = "pg_catalog"

\* C15: whenever listTables is given a schema argument (a string), it
\* returns exactly the tables outside the reserved schemas whose schema
\* is that argument, in ascending (schema_name, table_name) order, having
\* passed the argument as the bound parameter and not inside the SQL
\* text; a schema that matches nothing gives the empty list.
C15_SchemaFilter ==
  \A i \in DOMAIN listed :
    LET l == listed[i] IN
    l.schemaArg.type = "string" =>
      /\ {[schema |-> l.tables[k].schema_name, name |-> l.tables[k].table_name] :
            k \in DOMAIN l.tables}
           = {[schema |-> t.schema, name |-> t.name] :
                t \in {u \in catalog : /\ u.schema = l.schemaArg.str
                                       /\ u.schema \notin ReservedSchemas}}
      /\ \A j, k \in DOMAIN l.tables :
           j < k =>
             \/ Rank(l.tables[j].schema_name) < Rank(l.tables[k].schema_name)
             \/ /\ l.tables[j].schema_name = l.tables[k].schema_name
                /\ Rank(l.tables[j].table_name) < Rank(l.tables[k].table_name)
      /\ l.query.params = <<l.schemaArg.str>>
      /\ \A k \in DOMAIN l.query.text : l.query.text[k] # l.schemaArg.str

\* C16: the type name attached to a result field is the catalog's name
\* for every identifier the catalog holds (16 bool, 23 int4, 1043 varchar,
\* 3802 jsonb, ...), and "oid:" followed by the identifier for every
\* other one; the mapping yields one field per descriptor and never
\* fails.
C16_TypeNameResolution ==
  \A i \in ExecSlots :
    LET r == execs[i]
        fields == r.out.result.fields
        list == r.answer.raw.fields.list
    IN
    (r.pc = "done" /\ r.answer.ok) =>
    /\ r.out.thrown = NoError
    /\ Len(fields) = Len(list)
    /\ \A k \in DOMAIN fields :
         LET id == list[k].dataTypeID
             f == fields[k]
         IN /\ f.dataTypeID = id
            /\ id = 16 => f.dataTypeName = <<"bool">>
            /\ id = 23 => f.dataTypeName = <<"int4">>
            /\ id = 1043 => f.dataTypeName = <<"varchar">>
            /\ id = 3802 => f.dataTypeName = <<"jsonb">>
            /\ id \in DOMAIN PG_DATA_TYPES => f.dataTypeName = <<PG_DATA_TYPES[id]>>
            /\ id \notin DOMAIN PG_DATA_TYPES => f.dataTypeName = <<"oid:", id>>

\* C16 happens: a result with a varchar column and a column of a type the
\* catalog does not hold was mapped.
C16_Witness ==
  \E i \in ExecSlots :
    /\ execs[i].pc = "done"
    /\ Len(execs[i].out.result.fields) = 2
    /\ execs[i].answer.raw.fields.list[1].dataTypeID = 1043
    /\ execs[i].answer.raw.fields.list[2].dataTypeID = 600
    /\ execs[i].out.result.fields[2].dataTypeName = <<"oid:", 600>>

\* The submissions call c has made.
SentBy(c) == {e \in sent : e.by = c.id}

\* C19: one executeQuery call makes exactly one query submission on the
\* connection it was given, whatever the outcome: the statement is the
\* query argument, the parameters are the params list, or the empty list
\* when there is none; it calls neither connect nor end (the connection
\* has been connected once and, when the handler is done, ended once, by
\* the handler), and a statement that failed is not submitted again.
C19_ExactlyOneSubmission ==
  \A s \in Live :
    LET c == calls[s] IN
    (c.tool = "execute_query" /\ c.conn # 0 /\ c.pc # "connecting"
       /\ c.failedAt # "connect") =>
      /\ Cardinality(SentBy(c)) = 1
      /\ \A e \in SentBy(c) :
           /\ e.conn = c.conn
           /\ e.q = c.args.query.str
           /\ e.params = IF IsArray(c.args.params) THEN c.args.params.elems
                                                  ELSE <<>>
      /\ conns[c.conn].connects = 1
      /\ conns[c.conn].ends = IF c.pc = "query" THEN 0 ELSE 1

\* C19 happens: an execute_query call without params whose statement the
\* engine rejected has been answered, and one with a params list has
\* its statement in flight or answered.
C19_Witness ==
  \E s \in Live :
    /\ calls[s].tool = "execute_query"
    /\ calls[s].pc = "done"
    /\ calls[s].failedAt = "query"
    /\ calls[s].args.params = JsUndefined
    /\ \E e \in SentBy(calls[s]) : e.params = <<>> /\ e.q = "SELECT"

\* The configuration tool call that has just returned or thrown.
LastWas(tool) == jobs[1].pc = "done" /\ jobs[1].kind = tool

\* An argument that is missing or empty.
MissingOrEmpty(v) == v.type = "undefined" \/ (v.type = "string" /\ v.str = "")

\* C17 as stated: a configure_connection call with any of host, database,
\* user or password missing or empty, the call that carries no arguments
\* at all among them, fails with the invalid-parameters error 'host,
\* database, user, and password are required' and leaves the configuration
\* in memory and the persisted one as the call found them.
C17_MissingFieldsRejected ==
  (/\ LastWas("configure_connection")
   /\ \/ MissingOrEmpty(jobs[1].args.host)
      \/ MissingOrEmpty(jobs[1].args.database)
      \/ MissingOrEmpty(jobs[1].args.user)
      \/ MissingOrEmpty(jobs[1].args.password))
    => /\ JobThrown(jobs[1]).cls = "McpError"
       /\ JobThrown(jobs[1]).code = "InvalidParams"
       /\ Includes(JobThrown(jobs[1]).message,
                   <<"host, database, user, and password are required">>)
       /\ config = jobs[1].before.config
       /\ store = jobs[1].before.store

\* C18: a ConfigHandler holding the default configuration without a
\* password reports isConfigured() = false; once a configure_connection
\* call with non-empty host, database, user and password has been made,
\* isConfigured() is true and stays true over every later
\* get_connection_info and test_connection call, whether the connection
\* test passed or not.
C18_ConfiguredStaysConfigured ==
  /\ \A env \in Environments :
       (env.password = "" /\ config = GetDefaultConfig(env))
         => ~IsConfigured(config)
  /\ accepted => IsConfigured(config)

\* C18 happens: the server started without a password, a
\* configure_connection call was accepted, and a later test_connection
\* call has failed.
C18_Witness ==
  /\ LastWas("test_connection")
  /\ Tested(jobs[1]) = "failed"
  /\ accepted
  /\ jobs[1].before.store.password = "wrong"
  /\ IsConfigured(config)

\* The statements of describeTable, in the order it submits them.
DescribeStatements == <<"COLUMNS", "INDEXES", "PRIMARY_KEY">>

\* C21: a describeTable call submits its queries in the order column
\* metadata, index definitions, primary-key columns, each with the
\* parameters [schema, table] on the handler's connection and each only
\* once the one before has completed: while its n-th query is in flight it
\* has submitted the first n and no other.  A call that succeeded has
\* submitted exactly the three; a call whose column query returned no rows
\* has submitted the column query only.
C21_DescribeQueryOrder ==
  \A s \in Live :
    LET c == calls[s]
        schema == IF c.args.schema.type = "string" /\ c.args.schema.str # ""
                    THEN c.args.schema.str ELSE "public"
    IN
    (c.tool = "describe_table" /\ c.conn # 0 /\ c.pc # "connecting"
       /\ c.failedAt # "connect") =>
      /\ {e.n : e \in SentBy(c)} = 1..Cardinality(SentBy(c))
      /\ Cardinality(SentBy(c)) \in 1..3
      /\ c.pc = "query" => c.qn = Cardinality(SentBy(c))
      /\ \A e \in SentBy(c) :
           /\ e.q = DescribeStatements[e.n]
           /\ e.params = <<schema, c.args.table.str>>
           /\ e.conn = c.conn
           /\ e.state = "connected"
      /\ (c.pc = "done" /\ c.thrown = NoError) => Cardinality(SentBy(c)) = 3
      /\ (\A t \in catalog : ~(t.schema = schema /\ t.name = c.args.table.str)) =>
           Cardinality(SentBy(c)) = 1

\* C21 happens: a describe_table call has been answered with a description
\* after its three queries, and another with TABLE_NOT_FOUND after its
\* column query alone.
C21_Witness ==
  \E s \in Live :
    /\ calls[s].tool = "describe_table"
    /\ calls[s].pc = "done"
    /\ calls[s].thrown = NoError
    /\ calls[s].args.schema = JsStr("public")
    /\ {e.q : e \in SentBy(calls[s])} = {"COLUMNS", "INDEXES", "PRIMARY_KEY"}

C21_WitnessNotFound ==
  \E s \in Live :
    /\ calls[s].tool = "describe_table"
    /\ calls[s].pc = "done"
    /\ calls[s].thrown.code = "TABLE_NOT_FOUND"
    /\ {e.q : e \in SentBy(calls[s])} = {"COLUMNS"}

\* C22: on a successful execution rowCount is the row count the engine
\* reported, or 0 when it reported none; command is the engine's command
\* tag, or "UNKNOWN" when there is none; fields has one entry per field
\* descriptor of the engine, in the engine's order and with its name and
\* type identifier, and is empty when the engine returned no field list.
C22_ResultDefaults ==
  \A i \in ExecSlots :
    LET r == execs[i]
        raw == r.answer.raw
        res == r.out.result
    IN (r.pc = "done" /\ r.answer.ok) =>
         /\ r.out.thrown = NoError
         /\ res.rowCount = IF raw.hasRowCount THEN raw.rowCount ELSE 0
         /\ res.command = IF raw.command = "" THEN "UNKNOWN" ELSE raw.command
         /\ Len(res.fields) = IF raw.fields.present THEN Len(raw.fields.list) ELSE 0
         /\ \A k \in DOMAIN res.fields :
              /\ res.fields[k].name = raw.fields.list[k].name
              /\ res.fields[k].dataTypeID = raw.fields.list[k].dataTypeID

\* C22 happens: a result without row count, command tag and field list was
\* returned with the defaults.
C22_Witness ==
  \E i \in ExecSlots :
    /\ execs[i].pc = "done"
    /\ execs[i].answer.ok
    /\ ~execs[i].answer.raw.hasRowCount
    /\ execs[i].answer.raw.command = ""
    /\ ~execs[i].answer.raw.fields.present
    /\ execs[i].out.result.command = "UNKNOWN"
    /\ execs[i].out.result.rowCount = 0
    /\ execs[i].out.result.fields = <<>>

\* C22 happens too on a result that reports everything: two field
\* descriptors, a count and a tag.
C22_WitnessReported ==
  \E i \in ExecSlots :
    /\ execs[i].pc = "done"
    /\ execs[i].answer.ok
    /\ execs[i].answer.raw.hasRowCount
    /\ execs[i].out.result.rowCount = 2
    /\ execs[i].out.result.command = "SELECT"
    /\ Len(execs[i].out.result.fields) = 2

\* C23: every classified error executeQuery throws carries in
\* details.query the first 100 characters of the statement, the whole
\* statement when it has no more, and carries details.executionTime exactly
\* when it is the generic fallback ("Query execution failed: ...").
C23_DetailsOfClassifiedErrors ==
  \A i \in ExecSlots :
    LET r == execs[i]
        d == r.out.details
        n == IF Len(r.query) < 100 THEN Len(r.query) ELSE 100
        generic == /\ r.out.thrown.code = "QUERY_ERROR"
                   /\ SubSeq(r.out.thrown.message, 1, 3) =
                        <<"Query", "execution", "failed:">>
    IN (r.pc = "done" /\ ~r.answer.ok) =>
         /\ r.out.thrown.cls = "ManagedError"
         /\ "query" \in d.keys
         /\ Len(d.query) = n
         /\ \A k \in 1..n : d.query[k] = r.query[k]
         /\ ("executionTime" \in d.keys) <=> generic

\* C23 happens: a statement of 150 characters failed with a syntax error
\* (QUERY_ERROR without executionTime), and one failed with the fallback.
C23_Witness ==
  \E i \in ExecSlots :
    /\ execs[i].pc = "done"
    /\ ~execs[i].answer.ok
    /\ Len(execs[i].query) = 150
    /\ execs[i].out.thrown.code = "QUERY_ERROR"
    /\ Len(execs[i].out.details.query) = 100
    /\ "executionTime" \notin execs[i].out.details.keys

C23_WitnessGeneric ==
  \E i \in ExecSlots :
    /\ execs[i].pc = "done"
    /\ ~execs[i].answer.ok
    /\ Len(execs[i].query) = 99
    /\ execs[i].out.details.query = execs[i].query
    /\ "executionTime" \in execs[i].out.details.keys

\* C26: executionTime of a QueryResult is the clock reading after the
\* result minus the reading before the statement, and is not negative;
\* neither is the executionTime in the details of a generic QUERY_ERROR.
C26_ExecutionTimeNonNegative ==
  \A i \in ExecSlots :
    LET r == execs[i] IN
    /\ (r.pc = "done" /\ r.answer.ok) =>
         /\ r.out.result.executionTime = r.now - r.startTime
         /\ r.out.result.executionTime >= 0
    /\ (r.pc = "done" /\ ~r.answer.ok /\ "executionTime" \in r.out.details.keys) =>
         r.out.details.executionTime >= 0

\* C25: no step of an execute_query, list_tables or describe_table call
\* changes the handler's configuration, so getConfig() returns the same
\* descriptor after the call as before it; the descriptor a tool got is a
\* copy, and a write to it is not a write to the configuration.
C25_ConfigurationNotMutated == [][config' = config]_vars

\* C25 happens: a database tool holds a configured descriptor it got from
\* getConfig(), the password in it has been overwritten, and the
\* configuration is what it was when the call arrived.
C25_Witness ==
  \E s \in Live :
    /\ calls[s].tool \in DbTools
    /\ calls[s].pc = "ending"
    /\ calls[s].descriptor.ref # "none"
    /\ calls[s].descriptor.value.password = "changed"
    /\ config.password = "secret"
    /\ config = calls[s].cfg

\* Arguments of the wrong shape: no arguments object where a field is
\* required, a query or table that is not a non-empty string, a schema
\* that is given and is not a string, a params that is given and is not an
\* array of strings, numbers, booleans and nulls.
MalformedArgs(c) ==
  LET name(v) == v.type = "string" /\ v.str # ""
      text(v) == v.type \in {"undefined", "null", "string"} IN
  CASE c.tool = "execute_query" ->
         c.noArgs \/ ~name(c.args.query) \/ MalformedParams(c.args.params)
    [] c.tool = "describe_table" ->
         c.noArgs \/ ~name(c.args.table) \/ ~text(c.args.schema)
    [] c.tool = "list_tables" -> ~text(c.args.schema)

\* C27 as stated: a database tool handler checks the shape of its
\* arguments first, the configuration second, and constructs and connects
\* its Client third.  A call with malformed arguments fails with
\* INVALID_PARAMS, also on an unconfigured server; one with well-formed
\* arguments on an unconfigured server fails with NO_CONNECTION; only a
\* call that passed both has a Client.  After either failure the call has
\* constructed, connected and ended no Client and submitted nothing.
C27_ChecksInOrder ==
  \A s \in Live :
    LET c == calls[s] IN
    c.tool \in DbTools =>
      /\ MalformedArgs(c) =>
           c.thrown.cls = "ManagedError" /\ c.thrown.code = "INVALID_PARAMS"
      /\ (~MalformedArgs(c) /\ Unconfigured(c.cfg)) =>
           c.thrown.cls = "ManagedError" /\ c.thrown.code = "NO_CONNECTION"
      /\ (~MalformedArgs(c) /\ ~Unconfigured(c.cfg)) =>
           c.conn # 0 /\ conns[c.conn].owner = c.id
      /\ c.thrown.code \in {"INVALID_PARAMS", "NO_CONNECTION"} =>
           /\ c.pc = "done"
           /\ c.conn = 0
           /\ \A k \in ConnIds : conns[k].owner # c.id
           /\ SentBy(c) = {}

\* C24 as stated: every connection opened outside the three database
\* tools, by the connection test of configure_connection and
\* test_connection and by the resource handlers of index.ts, is closed on
\* every exit path: when the handler is done with a Client whose connect()
\* resolved, it has called end() on it once, also when its query failed.
C24_OtherPathsCloseConnections ==
  \A s \in JobSlots :
    LET j == jobs[s] IN
    (j.pc = "done" /\ j.conn # 0 /\ conns[j.conn].state # "failed") =>
      /\ conns[j.conn].ends = 1
      /\ conns[j.conn].state = "ended"

\* C28 as stated: when two overlapping configure_connection calls with
\* different arguments have both completed, the configuration in memory is
\* the complete argument set of one of them, never a mixture.
C28_NoMixedConfiguration ==
  (\A s \in JobSlots : jobs[s].pc = "done" /\ jobs[s].kind = "configure_connection")
    => \E s \in JobSlots : config = ConfigFromArgs(jobs[s].args)

\* C29 as stated: test_connection and get_connection_info leave the
\* configuration in memory as it was, whatever the handler's state and the
\* store hold: getConfig() and isConfigured() return the same after the
\* call as before it.
C29_ReadOnlyTools ==
  (LastWas("test_connection") \/ LastWas("get_connection_info")) =>
    /\ config = jobs[1].before.config
    /\ IsConfigured(config) = IsConfigured(jobs[1].before.config)

\* C29 as amended: get_connection_info leaves the configuration in memory
\* as it was.  test_connection changes it in one way only: when the import
\* of dj-config-mcp had finished as the call arrived, a field for which the
\* store holds a non-empty value takes that value (the port as a number),
\* and ssl, whenever the store holds a text for it, becomes whether that
\* text is "true"; every other field is as it was, no required field is
\* emptied, and a configured handler stays configured.  Neither tool
\* writes to the store.
C29_TestConnectionLoadsPersisted ==
  LET b == jobs[1].before
      persisted(f) ==
        b.djConfig /\ (IF f = "ssl" THEN b.store.sslSet ELSE b.store[f] # "")
  IN
  /\ LastWas("get_connection_info") => config = b.config /\ store = b.store
  /\ LastWas("test_connection") =>
       /\ \A f \in {"host", "database", "user", "password"} :
            config[f] = IF persisted(f) THEN b.store[f] ELSE b.config[f]
       /\ config.port = IF persisted("port") THEN ParseInt(b.store.port)
                                             ELSE b.config.port
       /\ config.ssl = IF persisted("ssl") THEN JsBool(b.store.ssl = "true")
                                           ELSE b.config.ssl
       /\ IsConfigured(b.config) => IsConfigured(config)
       /\ store = b.store

\* C29 happens: test_connection ran on a server that started without a
\* password while the store held the configuration of an earlier run, and
\* the handler is configured now.
C29_Witness ==
  /\ LastWas("test_connection")
  /\ jobs[1].before.config.password = ""
  /\ jobs[1].before.store.password = "secret"
  /\ ~IsConfigured(jobs[1].before.config)
  /\ IsConfigured(config)
  /\ config.host = "db.example"

\* C30 as stated: a configure_connection call that does not succeed, that
\* throws or returns a result flagged isError, leaves the configuration in
\* memory as it was before the call.
C30_FailedConfigureKeepsConfiguration ==
  (LastWas("configure_connection")
     /\ (JobThrown(jobs[1]) # NoError \/ JobIsError(jobs[1]))) =>
    config = jobs[1].before.config

====
